---- MODULE Spec2Model ----
(***************************************************************************)
(* A model of ntsc::Lexer (src/compiler/lexer/Lexer.cpp): the hand-written *)
(* byte-level scanner of the native-ts compiler.  One lexToken call is a   *)
(* sequence of steps: its entry, then one step per pass through the        *)
(* beginLexer label, per iteration of a comment scanner's loop and per     *)
(* iteration of a string scanner's loop (the loops the code can fail to    *)
(* leave).  The numeric scanners always end at the sentinel, so each is    *)
(* one operator.                                                           *)
(***************************************************************************)
EXTENDS Integers, Sequences, FiniteSets, TLC

VARIABLES
    buf,                  \* the source bytes [bufPtr, endPtr), never written
    tail,                 \* the bytes mapped after the sentinel at endPtr
    strictModeEnabled,    \* UserOpts::strictModeEnabled
    ptr, line, col,       \* Lexer::ptr (1-based index), Lexer::line, Lexer::col
    lexerFailed,          \* Lexer::lexerFailed
    tok,                  \* the caller's Token slot
    pc,                   \* where the caller / the running lexToken call is
    afterLineTerminator,  \* lexToken's local
    startPtr, startCol,   \* the string scanners' locals
    quote,                \* which string scanner runs (its closing byte)
    callPtr,              \* history: ptr when the running/last call began
    callDiags,            \* history: Len(diags) when that call began
    tokStart,             \* history: index of the first byte of the token last set
    tokSet,               \* history: the running/last call has called tok.set
    fileEnds,             \* history: how many calls have returned FileEnd
    diags,                \* history: the diagnostics written to llvm::errs()
    pair                  \* a second Lexer instance, when there is one, and
                          \* history: what the first one's caller has seen

vars == <<buf, tail, strictModeEnabled, ptr, line, col, lexerFailed, tok, pc,
          afterLineTerminator, startPtr, startCol, quote, callPtr, callDiags,
          tokStart, tokSet, fileEnds, diags, pair>>

----------------------------------------------------------------------------
(* Bounds of the model *)

MaxLen == 4          \* longest source over most alphabets
MaxCommentLen == 5   \* longest source over the small comment alphabet
MaxPunctLen == 2     \* longest source over the alphabet of all punctuator bytes
MaxTail == 1         \* bytes mapped after the sentinel
MaxLine == 6         \* line saturates here (the code's int does not)
MaxCol == 9          \* col saturates here
MaxDiags == 4        \* diagnostics recorded; further ones are dropped
MaxFileEnds == 2     \* FileEnd returns counted; the count saturates here
MaxFairLen == 3      \* longest source of the runs checked under fairness
MaxPairLen == 2      \* longest source of each of two lexers run together
MaxCalls == 3        \* calls whose results are recorded for comparison

----------------------------------------------------------------------------
(* Bytes *)

ch == [nul |-> 0, tab |-> 9, lf |-> 10, vt |-> 11, ff |-> 12, cr |-> 13,
       sp |-> 32, excl |-> 33, dq |-> 34, pct |-> 37, amp |-> 38, sq |-> 39,
       lpar |-> 40, rpar |-> 41, star |-> 42, plus |-> 43, comma |-> 44,
       minus |-> 45, dot |-> 46, slash |-> 47, d0 |-> 48, d1 |-> 49,
       d2 |-> 50, d7 |-> 55, d8 |-> 56, d9 |-> 57, colon |-> 58, semi |-> 59,
       lt |-> 60, eq |-> 61, gt |-> 62, quest |-> 63, B |-> 66, E |-> 69,
       O |-> 79, X |-> 88, lsq |-> 91, bslash |-> 92, rsq |-> 93, caret |-> 94, us |-> 95,
       a |-> 97, b |-> 98, e |-> 101, f |-> 102, g |-> 103, n |-> 110,
       o |-> 111, x |-> 120, lcurly |-> 123, bar |-> 124, rcurly |-> 125,
       tilde |-> 126,
       xEF |-> 239, xBB |-> 187, xBF |-> 191,     \* the UTF-8 BOM
       xE2 |-> 226, x80 |-> 128, xA8 |-> 168, xA9 |-> 169, \* U+2028, U+2029
       xC3 |-> 195, xFF |-> 255]

Min(a, b) == IF a < b THEN a ELSE b
Max(a, b) == IF a > b THEN a ELSE b

SeqsUpTo(A, n) == UNION {[1..k -> A] : k \in 0..n}

----------------------------------------------------------------------------
(* Memory: the buffer, the sentinel NUL at endPtr, then whatever is mapped  *)
(* after it.  A read past the mapped bytes faults.                         *)

bufPtr == 1
endPtr == Len(buf) + 1
Mem == buf \o <<ch.nul>> \o tail
MemLen == Len(Mem)
M(i) == IF i \in 1..MemLen THEN Mem[i] ELSE -1

----------------------------------------------------------------------------
(* Character classes *)

isHorizontalWhitespace(c) == c = 9 \/ c = 11 \/ c = 12 \/ c = ch.sp
isAscii(c) == c >= 0 /\ c < 128
\* (static_cast<uint32_t>(x) - '0') < k: below '0' the difference wraps to
\* at least 2^32 - '0', which is not below k.
uint32Below(x, k) == x >= ch.d0 /\ x - ch.d0 < k
isDigit(x) == uint32Below(x, 10)
isOctalDigit(x) == uint32Below(x, 8)
isBinaryDigit(x) == x = ch.d0 \/ x = ch.d1
isHexDigit(x) == \/ x \in 48..57
                 \/ x \in 97..102
                 \/ x \in 65..70
isUnicodeLT(x) == x = 8232 \/ x = 8233

isRadixDigit(radix, x) ==
    CASE radix = "dec" -> isDigit(x)
      [] radix = "hex" -> isHexDigit(x)
      [] radix = "oct" -> isOctalDigit(x)
      [] radix = "bin" -> isBinaryDigit(x)

----------------------------------------------------------------------------
(* llvm::convertUTF8Sequence(&ptr, endPtr, &cp, strictConversion)          *)

trailingBytesForUTF8(b) ==
    IF b < 192 THEN 0 ELSE IF b < 224 THEN 1 ELSE IF b < 240 THEN 2
    ELSE IF b < 248 THEN 3 ELSE IF b < 252 THEN 4 ELSE 5

isContinuation(a) == a >= 128 /\ a <= 191

legalSequence(p, length, b0, b1) ==
    LET second == CASE b0 = 224 -> b1 >= 160
                    [] b0 = 237 -> b1 <= 159
                    [] b0 = 240 -> b1 >= 144
                    [] b0 = 244 -> b1 <= 143
                    [] OTHER -> b1 >= 128
    IN  /\ length \in 1..4
        /\ length >= 4 => isContinuation(M(p + 3))
        /\ length >= 3 => isContinuation(M(p + 2))
        /\ length >= 2 => isContinuation(b1) /\ second
        /\ ~(b0 >= 128 /\ b0 < 194)
        /\ b0 <= 244

isLegalUTF8(p, length) == legalSequence(p, length, M(p), M(p + 1))

offsetsFromUTF8 == <<0, 12416, 925824, 63447168>>

codePoint(p, length) ==
    LET acc[i \in 1..length] ==
            IF i = 1 THEN M(p) ELSE acc[i - 1] * 64 + M(p + i - 1)
    IN  acc[length] - offsetsFromUTF8[length]

\* [ok, size, cp]: on failure the pointer is left where it was (size = 0).
convertUTF8Sequence(p, size) ==
    IF p = endPtr \/ size > endPtr - p \/ ~isLegalUTF8(p, size)
    THEN [ok |-> FALSE, size |-> 0, cp |-> 0]
    ELSE [ok |-> TRUE, size |-> size, cp |-> codePoint(p, size)]

decodeUTF8(p) == convertUTF8Sequence(p, trailingBytesForUTF8(M(p)) + 1)

----------------------------------------------------------------------------
(* Token::set, without and with the text argument.  text is <<first, len>> *)

\* Contrast to TokenSet: a set that empties the text it is not given.
tokenSetClearingText(t, kind, l, c, alt) ==
    [t EXCEPT !.kind = kind, !.line = l, !.col = c, !.afterLineTerminator = alt,
              !.text = <<0, 0>>]

TokenSet(t, kind, l, c, alt) ==
    [t EXCEPT !.kind = kind, !.line = l, !.col = c, !.afterLineTerminator = alt]

TokenSetText(t, kind, l, c, alt, text) ==
    [t EXCEPT !.kind = kind, !.line = l, !.col = c, !.afterLineTerminator = alt,
              !.text = text]

----------------------------------------------------------------------------
(* The punctuator cases of lexToken's switch at position p.  n is what is   *)
(* added to ptr, dc what is added to col, look the furthest lookahead read. *)

Adv(kind, n, look) == [kind |-> kind, n |-> n, dc |-> n, look |-> look]

\* case '?' with no second '?' or '.': col++ in the set call, then ++col.
QuestionCase == [kind |-> "Question", n |-> 0, dc |-> 2, look |-> 1]

punctuatorCase(c0, c1, c2, c3) ==
    CASE c0 = ch.lcurly -> Adv("LeftCurly", 1, 0)
      [] c0 = ch.rcurly -> Adv("RightCurly", 1, 0)
      [] c0 = ch.lpar -> Adv("LeftParenthasis", 1, 0)
      [] c0 = ch.rpar -> Adv("RightParenthasis", 1, 0)
      [] c0 = ch.lsq -> Adv("LeftSquare", 1, 0)
      [] c0 = ch.rsq -> Adv("RightSquare", 1, 0)
      [] c0 = ch.semi -> Adv("Semicolon", 1, 0)
      [] c0 = ch.comma -> Adv("Comma", 1, 0)
      [] c0 = ch.colon -> Adv("Colon", 1, 0)
      [] c0 = ch.dot ->
            IF c1 = ch.dot
            THEN IF c2 = ch.dot THEN Adv("DotDotDot", 3, 2) ELSE Adv("Dot", 1, 2)
            ELSE Adv("Dot", 1, 1)
      [] c0 = ch.lt ->
            IF c1 = ch.eq THEN Adv("LessEquals", 2, 1)
            ELSE IF c1 = ch.lt
            THEN IF c2 = ch.eq THEN Adv("LessLessEquals", 3, 2)
                 ELSE Adv("LessLess", 2, 2)
            ELSE IF c1 = ch.slash THEN Adv("LessSlash", 2, 1)
            ELSE Adv("Less", 1, 1)
      [] c0 = ch.gt ->
            IF c1 = ch.eq THEN Adv("GreaterEquals", 2, 1)
            ELSE IF c1 = ch.gt
            THEN IF c2 = ch.gt
                 THEN IF c3 = ch.eq
                      THEN Adv("GreaterGreaterGreaterEquals", 4, 3)
                      ELSE Adv("GreaterGreaterGreater", 3, 3)
                 ELSE IF c2 = ch.eq THEN Adv("GreaterGreaterEquals", 3, 2)
                 ELSE Adv("GreaterGreater", 2, 2)
            ELSE Adv("Greater", 1, 1)
      [] c0 = ch.eq ->
            IF c1 = ch.eq
            THEN IF c2 = ch.eq THEN Adv("EqualsEqualsEquals", 3, 2)
                 ELSE Adv("EqualsEquals", 2, 2)
            ELSE IF c1 = ch.gt THEN Adv("EqualsGreater", 2, 1)
            ELSE Adv("Equals", 1, 1)
      [] c0 = ch.excl ->
            IF c1 = ch.eq
            THEN IF c2 = ch.eq THEN Adv("ExclaimationEqualsEquals", 3, 2)
                 ELSE Adv("ExclaimationEquals", 2, 2)
            ELSE Adv("Exclaimation", 1, 1)
      [] c0 = ch.plus ->
            IF c1 = ch.plus THEN Adv("PlusPlus", 2, 1)
            ELSE IF c1 = ch.eq THEN Adv("PlusEquals", 2, 1)
            ELSE Adv("Plus", 1, 1)
      [] c0 = ch.minus ->
            IF c1 = ch.minus THEN Adv("MinusMinus", 2, 1)
            ELSE IF c1 = ch.eq THEN Adv("MinusEquals", 2, 1)
            ELSE Adv("Minus", 1, 1)
      [] c0 = ch.star ->
            IF c1 = ch.star
            THEN IF c2 = ch.eq THEN Adv("AsteriskAsteriskEquals", 3, 2)
                 ELSE Adv("AsteriskAsterisk", 2, 2)
            ELSE IF c1 = ch.eq THEN Adv("AsteriskEquals", 2, 1)
            ELSE Adv("Asterisk", 1, 1)
      [] c0 = ch.slash /\ c1 = ch.eq -> Adv("SlashEquals", 2, 1)
      [] c0 = ch.slash /\ c1 # ch.slash /\ c1 # ch.star -> Adv("Slash", 1, 1)
      [] c0 = ch.pct ->
            IF c1 = ch.eq THEN Adv("PercentEquals", 2, 1)
            ELSE Adv("Percent", 1, 1)
      [] c0 = ch.amp ->
            IF c1 = ch.eq THEN Adv("AmpersandEquals", 2, 1)
            ELSE IF c1 = ch.amp
            THEN IF c2 = ch.eq THEN Adv("AmpersandAmpersandEquals", 3, 2)
                 ELSE Adv("AmpersandAmpersand", 2, 2)
            ELSE Adv("Ampersand", 1, 1)
      [] c0 = ch.bar ->
            IF c1 = ch.eq THEN Adv("BarEquals", 2, 1)
            ELSE IF c1 = ch.bar
            THEN IF c2 = ch.eq THEN Adv("BarBarEquals", 3, 2)
                 ELSE Adv("BarBar", 2, 2)
            ELSE Adv("Bar", 1, 1)
      [] c0 = ch.caret ->
            IF c1 = ch.eq THEN Adv("CaretEquals", 2, 1)
            ELSE Adv("Caret", 1, 1)
      [] c0 = ch.tilde -> Adv("Tilde", 1, 0)
      [] c0 = ch.quest ->
            IF c1 = ch.quest
            THEN IF c2 = ch.eq THEN Adv("QuestionQuestionEquals", 3, 2)
                 ELSE Adv("QuestionQuestion", 2, 2)
            ELSE IF c1 = ch.dot THEN Adv("QuestionDot", 2, 1)
            ELSE QuestionCase
      [] OTHER -> Adv("none", 0, 0)

\* Contrast to Punctuator: a switch that never looks at ptr[3].
punctuatorOfThreeBytes(p) == punctuatorCase(M(p), M(p + 1), M(p + 2), ch.nul)

Punctuator(p) == punctuatorCase(M(p), M(p + 1), M(p + 2), M(p + 3))

----------------------------------------------------------------------------
(* The numeric scanners.  Each takes the position p0 and column c0 of the   *)
(* literal's first byte and the line l, and yields                          *)
(*   kind, tcol, hasText, text : the arguments of its tok.set call          *)
(*   ptr, col                  : the scan pointer and column it leaves      *)
(*   diag                      : the diagnostics it emits, in order         *)
(* A diagnostic is its message, the line and col it prints, and the scan    *)
(* pointer at which it is emitted.                                          *)
(*   rd                        : the highest index it reads                 *)

Diag(kind, l, c, p) == [kind |-> kind, line |-> l, col |-> c, at |-> p]

NumRes(kind, tcol, hasText, text, p, c, diag, rd) ==
    [kind |-> kind, tcol |-> tcol, hasText |-> hasText, text |-> text,
     ptr |-> p, col |-> c, diag |-> diag, rd |-> rd]

\* Contrast to ScanDigits: a digit loop that takes no separator.
RECURSIVE scanDigitsOnly(_, _, _)
scanDigitsOnly(p, c, radix) ==
    IF isRadixDigit(radix, M(p)) THEN scanDigitsOnly(p + 1, c + 1, radix)
    ELSE [p |-> p, c |-> c, badsep |-> M(p) = ch.us, rd |-> p + 1]

\* The digit loop shared by the scanners: digits of the radix, and '_' when
\* a digit follows.  It stops at p with badsep = TRUE on a '_' that no digit
\* follows, and with badsep = FALSE on any other byte.
RECURSIVE ScanDigits(_, _, _)
ScanDigits(p, c, radix) ==
    IF isRadixDigit(radix, M(p)) THEN ScanDigits(p + 1, c + 1, radix)
    ELSE IF M(p) = ch.us
    THEN IF isRadixDigit(radix, M(p + 1)) THEN ScanDigits(p + 2, c + 2, radix)
         ELSE [p |-> p, c |-> c, badsep |-> TRUE, rd |-> p + 1]
    ELSE [p |-> p, c |-> c, badsep |-> FALSE, rd |-> p]

\* diagnoseInvalidNumericSeparator: prints line and ++col, sets lexerFailed.
diagnoseInvalidNumericSeparator(l, c, p) == Diag("separator", l, c + 1, p)

\* diagnoseMalformedRadixInt: prints line and col, sets lexerFailed.
diagnoseMalformedRadixInt(l, c, p) == Diag("radix", l, c, p)

\* lexFloatLiteral after `do { ++ptr; ++col; } while (isDigit(ptr[0]))`.
RECURSIVE skipDigits(_)
skipDigits(p) == IF isDigit(M(p)) THEN skipDigits(p + 1) ELSE p

\* The exponent loop of lexFloatLiteral has stopped as s says.
floatExponentEnd(sp, sc, l, s) ==
    IF s.badsep
    THEN NumRes("FloatLiteral", sc, TRUE, <<sp, s.p - sp>>, s.p + 1, s.c + 1,
                <<diagnoseInvalidNumericSeparator(l, s.c, s.p)>>, s.rd)
    ELSE NumRes("FloatLiteral", sc, TRUE, <<sp, s.p - sp>>, s.p, s.c, <<>>, s.rd)

\* The fraction ended at p1, column c1: no exponent, or 'e'/'E', an optional
\* sign and the exponent loop.
floatAfterFraction(sp, sc, p1, c1, l, b0, b1) ==
    IF b0 # ch.e /\ b0 # ch.E
    THEN NumRes("FloatLiteral", sc, TRUE, <<sp, p1 - sp>>, p1, c1, <<>>, p1)
    ELSE IF b1 = ch.plus \/ b1 = ch.minus
    THEN floatExponentEnd(sp, sc, l, ScanDigits(p1 + 2, c1 + 2, "dec"))
    ELSE floatExponentEnd(sp, sc, l, ScanDigits(p1 + 1, c1 + 1, "dec"))

floatFrom(sp, sc, p, c, l, p1) ==
    floatAfterFraction(sp, sc, p1, c + (p1 - p), l, M(p1), M(p1 + 1))

\* Entered with ptr = p at the '.', startPtr/startCol at the literal's first
\* byte.
lexFloatLiteral(sp, sc, p, c, l) == floatFrom(sp, sc, p, c, l, skipDigits(p + 1))

\* Contrast to decimalEnd: a scanner that ends the literal at a '.'.
decimalEndWithoutFraction(p0, c0, l, s, b) ==
    IF s.badsep
    THEN NumRes("DecimalLiteral", c0, TRUE, <<p0, s.p - p0>>, s.p + 1, s.c + 1,
                <<diagnoseInvalidNumericSeparator(l, s.c, s.p)>>, s.rd)
    ELSE IF b = ch.n
    THEN NumRes("DecimalBigIntLiteral", c0, TRUE, <<p0, s.p - p0>>,
                s.p + 1, s.c + 1, <<>>, s.rd)
    ELSE NumRes("DecimalLiteral", c0, TRUE, <<p0, s.p - p0>>, s.p, s.c, <<>>, s.rd)

\* The digit loop of lexNumericLiteral has stopped as s says, on byte b.
decimalEnd(p0, c0, l, s, b) ==
    IF s.badsep
    THEN NumRes("DecimalLiteral", c0, TRUE, <<p0, s.p - p0>>, s.p + 1, s.c + 1,
                <<diagnoseInvalidNumericSeparator(l, s.c, s.p)>>, s.rd)
    ELSE IF b = ch.n
    THEN NumRes("DecimalBigIntLiteral", c0, TRUE, <<p0, s.p - p0>>,
                s.p + 1, s.c + 1, <<>>, s.rd)
    ELSE IF b = ch.dot
    THEN lexFloatLiteral(p0, c0, s.p, s.c, l)
    ELSE NumRes("DecimalLiteral", c0, TRUE, <<p0, s.p - p0>>, s.p, s.c, <<>>, s.rd)

decimalFrom(p0, c0, l, s) == decimalEnd(p0, c0, l, s, M(s.p))

lexNumericLiteral(p0, c0, l) ==
    decimalFrom(p0, c0, l, ScanDigits(p0 + 1, c0 + 1, "dec"))

\* Contrast to radixEnd: a scanner that knows no BigInt suffix.
radixEndWithoutSuffix(sp, c0, l, kind, bigKind, s, b) ==
    IF s.badsep
    THEN NumRes(kind, c0, TRUE, <<sp, s.p - sp>>, s.p + 1, s.c + 2,
                <<diagnoseInvalidNumericSeparator(l, s.c, s.p)>>, s.rd)
    ELSE NumRes(kind, c0, TRUE, <<sp, s.p - sp>>, s.p, s.c, <<>>, s.rd)

\* The digit loop of a radix scanner has stopped as s says, on byte b; the
\* text starts at sp.
radixEnd(sp, c0, l, kind, bigKind, s, b) ==
    IF s.badsep
    THEN NumRes(kind, c0, TRUE, <<sp, s.p - sp>>, s.p + 1, s.c + 2,
                <<diagnoseInvalidNumericSeparator(l, s.c, s.p)>>, s.rd)
    ELSE IF b = ch.n
    THEN NumRes(bigKind, c0, TRUE, <<sp, s.p - sp>>, s.p + 1, s.c + 1, <<>>, s.rd)
    ELSE NumRes(kind, c0, TRUE, <<sp, s.p - sp>>, s.p, s.c, <<>>, s.rd)

radixFrom(sp, c0, l, kind, bigKind, s) ==
    radixEnd(sp, c0, l, kind, bigKind, s, M(s.p))

\* The body shared by lexHexNumericLiteral, lexOctalNumericLiteral and
\* lexBinaryNumericLiteral, which differ in the digit test and the kinds:
\* the prefix is consumed, then a digit must follow.
lexRadixNumericLiteral(p0, c0, l, radix, kind, bigKind) ==
    IF ~isRadixDigit(radix, M(p0 + 2))
    THEN NumRes("ZeroLiteral", c0, FALSE, <<0, 0>>, p0 + 2, c0 + 2,
                <<diagnoseMalformedRadixInt(l, c0 + 2, p0 + 2)>>, p0 + 2)
    ELSE radixFrom(p0 + 2, c0, l, kind, bigKind, ScanDigits(p0 + 3, c0 + 3, radix))

\* Contrast to lexHexNumericLiteral: a scanner that goes into the digit loop
\* without asking for a first digit.
lexHexDigitsAfterPrefix(p0, c0, l) ==
    radixFrom(p0 + 2, c0, l, "HexLiteral", "HexBigIntLiteral",
              ScanDigits(p0 + 2, c0 + 2, "hex"))

lexHexNumericLiteral(p0, c0, l) ==
    lexRadixNumericLiteral(p0, c0, l, "hex", "HexLiteral", "HexBigIntLiteral")

lexOctalNumericLiteral(p0, c0, l) ==
    lexRadixNumericLiteral(p0, c0, l, "oct", "OctalLiteral", "OctalBigIntLiteral")

lexBinaryNumericLiteral(p0, c0, l) ==
    lexRadixNumericLiteral(p0, c0, l, "bin", "BinaryLiteral", "BinaryBigIntLiteral")

\* The digit loop of lexLegacyOctalLiteral has stopped as s says; the text
\* starts at sp, after the leading 0.
legacyOctalEnd(sp, c0, l, strict, s) ==
    IF s.badsep
    THEN NumRes("OctalLiteral", c0, TRUE, <<sp, s.p - sp>>, s.p + 1, s.c + 2,
                <<diagnoseInvalidNumericSeparator(l, s.c, s.p)>>, s.rd)
    ELSE NumRes("OctalLiteral", c0, TRUE, <<sp, s.p - sp>>, s.p, s.c,
                IF strict THEN <<Diag("legacyOctal", l, c0, s.p)>> ELSE <<>>, s.rd)

\* Contrast to lexLegacyOctalLiteral: a scanner whose text takes in the
\* leading 0.
lexLegacyOctalWithZero(p0, c0, l, strict) ==
    legacyOctalEnd(p0, c0, l, strict, ScanDigits(p0 + 2, c0 + 2, "oct"))

lexLegacyOctalLiteral(p0, c0, l, strict) ==
    legacyOctalEnd(p0 + 1, c0, l, strict, ScanDigits(p0 + 2, c0 + 2, "oct"))

\* case '1'..'9' and case '0' of lexToken's switch.
isNumberStart(c) == c \in 48..57

zeroCase(p0, c0, l, strict, c1) ==
    IF c1 = ch.dot THEN lexFloatLiteral(p0, c0, p0 + 1, c0 + 1, l)
    ELSE IF c1 = ch.x \/ c1 = ch.X THEN lexHexNumericLiteral(p0, c0, l)
    ELSE IF c1 = ch.O \/ c1 = ch.o THEN lexOctalNumericLiteral(p0, c0, l)
    ELSE IF c1 = ch.b \/ c1 = ch.B THEN lexBinaryNumericLiteral(p0, c0, l)
    ELSE IF c1 = ch.n
    THEN NumRes("ZeroBigIntLiteral", c0, FALSE, <<0, 0>>, p0 + 2, c0 + 2,
                <<>>, p0 + 1)
    ELSE IF c1 \in 48..55 THEN lexLegacyOctalLiteral(p0, c0, l, strict)
    ELSE NumRes("ZeroLiteral", c0, FALSE, <<0, 0>>, p0, c0, <<>>, p0 + 1)

Number(p0, c0, l, strict) ==
    IF M(p0) # ch.d0 THEN lexNumericLiteral(p0, c0, l)
    ELSE zeroCase(p0, c0, l, strict, M(p0 + 1))

----------------------------------------------------------------------------
(* Sources.  A scenario is an alphabet, the longest source drawn from it   *)
(* and the settings of the strict-mode flag it is scanned under.           *)

OpAlpha == {ch.gt, ch.eq, ch.quest, ch.dot, ch.sp, ch.lf, ch.a}
Op2Alpha == {ch.lt, ch.excl, ch.star, ch.amp, ch.bar, ch.eq}
PunctAlpha ==
    {ch.lcurly, ch.rcurly, ch.lpar, ch.rpar, ch.lsq, ch.rsq, ch.semi, ch.comma,
     ch.colon, ch.dot, ch.lt, ch.gt, ch.eq, ch.excl, ch.plus, ch.minus, ch.star,
     ch.slash, ch.pct, ch.amp, ch.bar, ch.caret, ch.tilde, ch.quest}
DecAlpha == {ch.d0, ch.d1, ch.us, ch.n, ch.dot, ch.e, ch.minus}
HexAlpha == {ch.d0, ch.x, ch.f, ch.g, ch.us, ch.n}
OctAlpha == {ch.d0, ch.o, ch.d7, ch.d8, ch.us, ch.n}
BinAlpha == {ch.d0, ch.b, ch.d1, ch.d2, ch.us, ch.n}
CmtAlpha == {ch.slash, ch.star, ch.lf, ch.cr, ch.nul, ch.semi}
LongCmtAlpha == {ch.slash, ch.star, ch.lf, ch.semi}
UniAlpha == {ch.slash, ch.star, ch.xE2, ch.x80, ch.xA8, ch.xA9}
StrAlpha == {ch.dq, ch.sq, ch.a, ch.bslash, ch.lf, ch.xC3, ch.xA9, ch.nul}
BomAlpha == {ch.xEF, ch.xBB, ch.xBF, ch.semi}
LineAlpha == {ch.dq, ch.cr, ch.lf, ch.semi}
UniStrAlpha == {ch.dq, ch.xE2, ch.x80, ch.xA8}
TailAlpha == {ch.dq, ch.sq, ch.a, ch.nul}

Scenario(alpha, len, strict) == [alpha |-> alpha, len |-> len, strict |-> strict]

Scenarios ==
    { Scenario(OpAlpha, MaxLen, {TRUE}),
      Scenario(Op2Alpha, MaxLen, {TRUE}),
      Scenario(PunctAlpha, MaxPunctLen, {TRUE}),
      Scenario(DecAlpha, MaxLen, {TRUE}),
      Scenario(HexAlpha, MaxLen, {TRUE}),
      Scenario(OctAlpha, MaxLen, {TRUE, FALSE}),
      Scenario(BinAlpha, MaxLen, {TRUE}),
      Scenario(CmtAlpha, MaxLen, {TRUE}),
      Scenario(LongCmtAlpha, MaxCommentLen, {TRUE}),
      Scenario(UniAlpha, MaxCommentLen, {TRUE}),
      Scenario(StrAlpha, MaxLen, {TRUE}),
      Scenario(LineAlpha, MaxLen, {TRUE}),
      Scenario(UniStrAlpha, MaxCommentLen, {TRUE}),
      Scenario(BomAlpha, MaxLen + 2, {TRUE}) }

Tails == SeqsUpTo(TailAlpha, MaxTail)

\* `ntsc::Token tok;` leaves kind, line, col and afterLineTerminator
\* indeterminate; text is an empty StringRef.
IndeterminateTokens ==
    { [kind |-> "FileEnd", line |-> 0, col |-> 0, text |-> <<0, 0>>,
       afterLineTerminator |-> FALSE],
      [kind |-> "Question", line |-> 7, col |-> 7, text |-> <<0, 0>>,
       afterLineTerminator |-> TRUE] }

----------------------------------------------------------------------------
(* Lexer::Lexer: ptr past a leading EF BB BF, line = col = 1, not failed.  *)

startsWithBOM(b) ==
    Len(b) >= 3 /\ b[1] = ch.xEF /\ b[2] = ch.xBB /\ b[3] = ch.xBF

\* Contrast to Lexer: a constructor that leaves the BOM to lexToken.
lexerAtBufferStart(b) == bufPtr

\* Contrast to Lexer: a constructor that removes a second BOM as well.
lexerPastEveryBOM(b) ==
    IF ~startsWithBOM(b) THEN bufPtr
    ELSE IF startsWithBOM(SubSeq(b, 4, Len(b))) THEN bufPtr + 6
    ELSE bufPtr + 3

Lexer(b) == IF startsWithBOM(b) THEN bufPtr + 3 ELSE bufPtr

\* phase "single": one Lexer instance and nothing recorded.  tok0 is the
\* caller's token slot as it was before the first call, mem what the run
\* alone found behind the sentinel, asleep the instance that is not running.
Pair(phase, seen, alone, tok0, mem, asleep) ==
    [phase |-> phase, me |-> 1, seen |-> seen, alone |-> alone, tok0 |-> tok0,
     mem |-> mem, asleep |-> asleep]

Single ==
    Pair("single", <<>>, <<>>, CHOOSE t \in IndeterminateTokens : t.line = 0,
         <<>>, <<>>)

Init ==
    /\ \E s \in Scenarios :
          /\ buf \in SeqsUpTo(s.alpha, s.len)
          /\ strictModeEnabled \in s.strict
    /\ tail = <<>>
    /\ ptr = Lexer(buf)
    /\ line = 1
    /\ col = 1
    /\ lexerFailed = FALSE
    /\ tok \in IndeterminateTokens
    /\ pc = "constructed"
    /\ afterLineTerminator = FALSE
    /\ startPtr = 0
    /\ startCol = 0
    /\ quote = 0
    /\ callPtr = ptr
    /\ callDiags = 0
    /\ tokStart = 0
    /\ tokSet = FALSE
    /\ fileEnds = 0
    /\ diags = <<>>
    /\ pair = Single

----------------------------------------------------------------------------
(* Helpers of the steps *)

CapLine(l) == Min(l, MaxLine)
CapCol(c) == Min(c, MaxCol)

Emit(ds) ==
    LET all == diags \o ds IN SubSeq(all, 1, Min(Len(all), MaxDiags))

\* The while loop at beginLexer: the first position at or after p that holds
\* no horizontal whitespace.
RECURSIVE SkipWhitespace(_)
SkipWhitespace(p) ==
    IF isHorizontalWhitespace(M(p)) THEN SkipWhitespace(p + 1) ELSE p

here == SkipWhitespace(ptr)
hereCol == col + (here - ptr)

isCommentOpen(p) ==
    M(p) = ch.slash /\ (M(p + 1) = ch.slash \/ M(p + 1) = ch.star)

isQuote(c) == c = ch.dq \/ c = ch.sq

\* No case of the switch matches: neither NUL, a line terminator, a
\* punctuator, a digit nor a quote.
isUnhandled(p) ==
    /\ M(p) # ch.nul /\ M(p) # ch.lf /\ M(p) # ch.cr
    /\ Punctuator(p).kind = "none" /\ ~isCommentOpen(p)
    /\ ~isNumberStart(M(p)) /\ ~isQuote(M(p))

\* Contrast to dispatchReads: a switch whose punctuator cases compare
\* ptr[1], ptr[2] and ptr[3] whatever the bytes before them are.
dispatchReadsThreeAhead(p, c, b, r) ==
    IF b = ch.cr THEN p + 1
    ELSE IF isCommentOpen(p) THEN p + 1
    ELSE IF r.kind # "none" THEN p + 3
    ELSE IF isNumberStart(b) THEN Number(p, c, line, strictModeEnabled).rd
    ELSE p

\* The highest index a pass through the switch at p reads; r is the
\* punctuator case at p.
dispatchReads(p, c, b, r) ==
    IF b = ch.cr THEN p + 1
    ELSE IF isCommentOpen(p) THEN p + 1
    ELSE IF r.kind # "none" THEN p + r.look
    ELSE IF isNumberStart(b) THEN Number(p, c, line, strictModeEnabled).rd
    ELSE p

\* The highest index the next step of the running call reads.
ReadsTo ==
    CASE pc = "beginLexer" ->
            dispatchReads(here, hereCol, M(here), Punctuator(here))
      [] pc = "singleLineComment" -> IF M(ptr) = ch.cr THEN ptr + 1 ELSE ptr
      [] pc = "multiLineComment" ->
            IF M(ptr) = ch.cr \/ M(ptr) = ch.star THEN ptr + 1 ELSE ptr
      [] pc = "string" -> ptr
      [] OTHER -> 0

Running == pc \in {"beginLexer", "singleLineComment", "multiLineComment", "string"}

Mapped == Running /\ ReadsTo <= MemLen

\* lexToken returns.
Return(t, set) ==
    /\ pc' = "returned"
    /\ tok' = t
    /\ tokSet' = set
    /\ fileEnds' = IF set /\ t.kind = "FileEnd"
                   THEN Min(fileEnds + 1, MaxFileEnds) ELSE fileEnds

----------------------------------------------------------------------------
(* lexToken *)

\* What the caller of the first instance has in its token slot and reads
\* from failed() as it makes its next call: recorded, up to MaxCalls calls,
\* in the runs that are compared.
seenAtCall ==
    IF pair.phase = "single" \/ pair.me # 1 \/ Len(pair.seen) >= MaxCalls
    THEN pair
    ELSE [pair EXCEPT !.seen = Append(@, [tok |-> tok, failed |-> lexerFailed])]

\* Entry: `bool afterLineTerminator = false;`, then beginLexer.
LexToken ==
    /\ pc \in {"constructed", "returned"}
    /\ pc' = "beginLexer"
    /\ afterLineTerminator' = FALSE
    /\ callPtr' = ptr
    /\ callDiags' = Len(diags)
    /\ tokSet' = FALSE
    /\ pair' = seenAtCall
    /\ UNCHANGED <<buf, tail, strictModeEnabled, ptr, line, col, lexerFailed,
                   tok, startPtr, startCol, quote, tokStart, fileEnds, diags>>

\* Contrast to atFileEnd: a lexer that takes every NUL for the end of the file.
everyNulEndsFile(p) == TRUE

\* Is the NUL at p the end of the file?
atFileEnd(p) == p = endPtr

\* Contrast to fileEndAt: a case 0 that sets the token with `col++`, as the
\* single-byte punctuator cases do.
fileEndMovingCol(p, c) ==
    /\ M(p) = ch.nul /\ atFileEnd(p)
    /\ Return(TokenSet(tok, "FileEnd", line, c, afterLineTerminator), TRUE)
    /\ ptr' = p
    /\ col' = CapCol(c + 1)
    /\ tokStart' = p
    /\ UNCHANGED <<pair, buf, tail, strictModeEnabled, line, lexerFailed,
                   afterLineTerminator, startPtr, startCol, quote,
                   callPtr, callDiags, diags>>

\* case 0 with ptr == endPtr, reached at position p, column c.
fileEndAt(p, c) ==
    /\ M(p) = ch.nul /\ atFileEnd(p)
    /\ Return(TokenSet(tok, "FileEnd", line, c, afterLineTerminator), TRUE)
    /\ ptr' = p
    /\ col' = CapCol(c)
    /\ tokStart' = p
    /\ UNCHANGED <<pair, buf, tail, strictModeEnabled, line, lexerFailed,
                   afterLineTerminator, startPtr, startCol, quote,
                   callPtr, callDiags, diags>>

FileEnd == pc = "beginLexer" /\ Mapped /\ fileEndAt(here, hereCol)

\* diagnoseUnexpectedNull at position p, column c: the diagnostic, the flag,
\* ++line, ++col; the pointer stays.
diagnoseUnexpectedNull(p, c) ==
    /\ diags' = Emit(<<Diag("null", line, c, p)>>)
    /\ lexerFailed' = TRUE
    /\ line' = CapLine(line + 1)
    /\ col' = CapCol(c + 1)
    /\ ptr' = p

\* case 0 with ptr != endPtr, then goto beginLexer.
unexpectedNullAt(p, c) ==
    /\ M(p) = ch.nul /\ ~atFileEnd(p)
    /\ diagnoseUnexpectedNull(p, c)
    /\ UNCHANGED <<pair, buf, tail, strictModeEnabled, tok, pc, afterLineTerminator,
                   startPtr, startCol, quote,
                   callPtr, callDiags, tokStart, tokSet,
                   fileEnds>>

UnexpectedNull == pc = "beginLexer" /\ Mapped /\ unexpectedNullAt(here, hereCol)

\* Contrast to lineTerminatorAt: a line terminator that resets col and does
\* not count the line.
lineTerminatorKeepingLine(p, b, b1) ==
    /\ b = ch.lf \/ b = ch.cr
    /\ col' = 1
    /\ afterLineTerminator' = TRUE
    /\ ptr' = IF b = ch.cr /\ b1 = ch.lf THEN p + 2 ELSE p + 1
    /\ UNCHANGED <<pair, buf, tail, strictModeEnabled, line, lexerFailed, tok, pc,
                   startPtr, startCol, quote,
                   callPtr, callDiags, tokStart, tokSet, fileEnds, diags>>

\* case '\n' and case '\r' (b at p, b1 after it), then goto beginLexer.
lineTerminatorAt(p, b, b1) ==
    /\ b = ch.lf \/ b = ch.cr
    /\ line' = CapLine(line + 1)
    /\ col' = 1
    /\ afterLineTerminator' = TRUE
    /\ ptr' = IF b = ch.cr /\ b1 = ch.lf THEN p + 2 ELSE p + 1
    /\ UNCHANGED <<pair, buf, tail, strictModeEnabled, lexerFailed, tok, pc, startPtr,
                   startCol, quote,
                   callPtr, callDiags, tokStart, tokSet, fileEnds, diags>>

LineTerminator ==
    pc = "beginLexer" /\ Mapped /\ lineTerminatorAt(here, M(here), M(here + 1))

\* The punctuator and operator cases (r at p, column c): set the token and
\* return.
punctuatorAt(p, c, r) ==
    /\ r.kind # "none"
    /\ Return(TokenSet(tok, r.kind, line, c, afterLineTerminator), TRUE)
    /\ ptr' = p + r.n
    /\ col' = CapCol(c + r.dc)
    /\ tokStart' = p
    /\ UNCHANGED <<pair, buf, tail, strictModeEnabled, line, lexerFailed,
                   afterLineTerminator, startPtr, startCol, quote,
                   callPtr, callDiags, diags>>

PunctuatorToken ==
    pc = "beginLexer" /\ Mapped /\ punctuatorAt(here, hereCol, Punctuator(here))

\* Contrast to commentOpenAt: a scanner entered behind the '/' only, which
\* then meets the '*' of the opening.
commentOpenBehindSlash(p, c, b1) ==
    /\ isCommentOpen(p)
    /\ pc' = IF b1 = ch.slash THEN "singleLineComment" ELSE "multiLineComment"
    /\ ptr' = p + 1
    /\ col' = CapCol(c + 1)
    /\ UNCHANGED <<pair, buf, tail, strictModeEnabled, line, lexerFailed, tok,
                   afterLineTerminator, startPtr, startCol, quote,
                   callPtr, callDiags,
                   tokStart, tokSet, fileEnds, diags>>

\* case '/' followed by '/' or '*' (b1): the comment scanner consumes the
\* opening.
commentOpenAt(p, c, b1) ==
    /\ isCommentOpen(p)
    /\ pc' = IF b1 = ch.slash THEN "singleLineComment" ELSE "multiLineComment"
    /\ ptr' = p + 2
    /\ col' = CapCol(c + 2)
    /\ UNCHANGED <<pair, buf, tail, strictModeEnabled, line, lexerFailed, tok,
                   afterLineTerminator, startPtr, startCol, quote,
                   callPtr, callDiags,
                   tokStart, tokSet, fileEnds, diags>>

CommentOpen == pc = "beginLexer" /\ Mapped /\ commentOpenAt(here, hereCol, M(here + 1))

\* Contrast to failedAfter: a flag that tells of the latest token only.
failedByThisToken(failed, diag) == diag # <<>>

\* Every diagnose* of the numeric scanners sets lexerFailed = true.
failedAfter(failed, diag) == failed \/ diag # <<>>

\* case '1'..'9' and case '0': the numeric scanner (its result r) sets the
\* token; return.
numericAt(p, r) ==
    /\ Return(IF r.hasText
              THEN TokenSetText(tok, r.kind, line, r.tcol, afterLineTerminator,
                                r.text)
              ELSE TokenSet(tok, r.kind, line, r.tcol, afterLineTerminator),
              TRUE)
    /\ ptr' = r.ptr
    /\ col' = CapCol(r.col)
    /\ diags' = Emit(r.diag)
    /\ lexerFailed' = failedAfter(lexerFailed, r.diag)
    /\ tokStart' = p
    /\ UNCHANGED <<pair, buf, tail, strictModeEnabled, line, afterLineTerminator,
                   startPtr, startCol, quote, callPtr, callDiags>>

numericFrom(p, c) ==
    /\ isNumberStart(M(p))
    /\ numericAt(p, Number(p, c, line, strictModeEnabled))

NumericLiteral == pc = "beginLexer" /\ Mapped /\ numericFrom(here, hereCol)

\* case '"' and case '\'' (b): `startPtr = ++ptr; startCol = col++;`.
stringOpenAt(p, c, b) ==
    /\ isQuote(b)
    /\ pc' = "string"
    /\ quote' = b
    /\ startPtr' = p + 1
    /\ startCol' = c
    /\ ptr' = p + 1
    /\ col' = CapCol(c + 1)
    /\ UNCHANGED <<pair, buf, tail, strictModeEnabled, line, lexerFailed, tok,
                   afterLineTerminator,
                   callPtr, callDiags, tokStart, tokSet, fileEnds,
                   diags>>

StringOpen == pc = "beginLexer" /\ Mapped /\ stringOpenAt(here, hereCol, M(here))

\* No case matches: the switch is left and lexToken returns, tok untouched.
unhandledAt(p, c) ==
    /\ isUnhandled(p)
    /\ Return(tok, FALSE)
    /\ ptr' = p
    /\ col' = CapCol(c)
    /\ UNCHANGED <<pair, buf, tail, strictModeEnabled, line, lexerFailed,
                   afterLineTerminator, startPtr, startCol, quote,
                   callPtr, callDiags,
                   tokStart, diags>>

Unhandled == pc = "beginLexer" /\ Mapped /\ unhandledAt(here, hereCol)

----------------------------------------------------------------------------
(* The comment scanners, one loop iteration per step.  An iteration yields  *)
(*   next        : "loop" (continue), "true" / "false" (the value returned) *)
(*   ptr, line, col, alt, failed : the fields and the flag it leaves        *)
(*   diag        : the diagnostics it emits                                 *)

Iter(next, p, l, c, alt, failed, diag) ==
    [next |-> next, ptr |-> p, line |-> l, col |-> c, alt |-> alt,
     failed |-> failed, diag |-> diag]

\* The default case of both comment loops and the tail of both string
\* loops (b at ptr, d its decoding): an ASCII byte, or a UTF-8 sequence;
\* diagnoseInvalidUTF8 skips one byte and leaves col.  A Unicode line
\* terminator ends a single-line comment, is counted and flagged in a
\* multi-line comment, and is one more character of a string.
\* Contrast to characterStep: a scanner that counts the byte of a failed
\* decoding as a character.
characterStepCountingInvalid(scanner, b, d) ==
    IF isAscii(b)
    THEN Iter("loop", ptr + 1, line, col + 1, afterLineTerminator, lexerFailed, <<>>)
    ELSE IF ~d.ok
    THEN Iter("loop", ptr + 1, line, col + 1, afterLineTerminator, TRUE,
              <<Diag("utf8", line, col, ptr)>>)
    ELSE IF scanner = "singleLineComment" /\ isUnicodeLT(d.cp)
    THEN Iter("true", ptr + d.size, line + 1, 1, afterLineTerminator,
              lexerFailed, <<>>)
    ELSE IF scanner = "multiLineComment" /\ isUnicodeLT(d.cp)
    THEN Iter("loop", ptr + d.size, line + 1, 1, TRUE, lexerFailed, <<>>)
    ELSE Iter("loop", ptr + d.size, line, col + 1, afterLineTerminator,
              lexerFailed, <<>>)

characterStep(scanner, b, d) ==
    IF isAscii(b)
    THEN Iter("loop", ptr + 1, line, col + 1, afterLineTerminator, lexerFailed, <<>>)
    ELSE IF ~d.ok
    THEN Iter("loop", ptr + 1, line, col, afterLineTerminator, TRUE,
              <<Diag("utf8", line, col, ptr)>>)
    ELSE IF scanner = "singleLineComment" /\ isUnicodeLT(d.cp)
    THEN Iter("true", ptr + d.size, line + 1, 1, afterLineTerminator,
              lexerFailed, <<>>)
    ELSE IF scanner = "multiLineComment" /\ isUnicodeLT(d.cp)
    THEN Iter("loop", ptr + d.size, line + 1, 1, TRUE, lexerFailed, <<>>)
    ELSE Iter("loop", ptr + d.size, line, col + 1, afterLineTerminator,
              lexerFailed, <<>>)

scanCharacter(scanner) == characterStep(scanner, M(ptr), decodeUTF8(ptr))

\* case 0 of both comment loops when ptr != endPtr: diagnoseUnexpectedNull.
nullInComment ==
    Iter("loop", ptr, line + 1, col + 1, afterLineTerminator, TRUE,
         <<Diag("null", line, col, ptr)>>)

\* case '\n' and case '\r' of both comment loops; alt is the flag it leaves.
terminatorInComment(next, alt) ==
    Iter(next,
         IF M(ptr) = ch.cr /\ M(ptr + 1) = ch.lf THEN ptr + 2 ELSE ptr + 1,
         line + 1, 1, alt, lexerFailed, <<>>)

lexSingleLineComment ==
    CASE M(ptr) = ch.nul ->
            IF atFileEnd(ptr)
            THEN Iter("false", ptr, line, col, afterLineTerminator, lexerFailed, <<>>)
            ELSE nullInComment
      [] M(ptr) = ch.lf \/ M(ptr) = ch.cr ->
            terminatorInComment("true", afterLineTerminator)
      [] OTHER -> scanCharacter("singleLineComment")

\* What the unterminated-comment branch does to lexerFailed.
failedAtCommentEnd(failed) == failed

\* Contrast to lexMultiLineComment: a scanner that the first '*' ends.
lexMultiLineCommentEndedByStar ==
    CASE M(ptr) = ch.star ->
            Iter("true", ptr + 1, line, col + 1, afterLineTerminator,
                 lexerFailed, <<>>)
      [] M(ptr) = ch.nul ->
            IF atFileEnd(ptr)
            THEN Iter("false", ptr, line, col, afterLineTerminator,
                      failedAtCommentEnd(lexerFailed),
                      <<Diag("eofInComment", line, col, ptr)>>)
            ELSE nullInComment
      [] M(ptr) = ch.lf \/ M(ptr) = ch.cr -> terminatorInComment("loop", TRUE)
      [] OTHER -> scanCharacter("multiLineComment")

\* Contrast to lexMultiLineComment: a scanner for which the end of the file
\* ends the comment.
lexMultiLineCommentEndedByFile ==
    CASE M(ptr) = ch.star ->
            IF M(ptr + 1) = ch.slash
            THEN Iter("true", ptr + 2, line, col + 2, afterLineTerminator,
                      lexerFailed, <<>>)
            ELSE Iter("loop", ptr + 1, line, col + 1, afterLineTerminator,
                      lexerFailed, <<>>)
      [] M(ptr) = ch.nul ->
            IF atFileEnd(ptr)
            THEN Iter("true", ptr, line, col, afterLineTerminator,
                      lexerFailed, <<>>)
            ELSE nullInComment
      [] M(ptr) = ch.lf \/ M(ptr) = ch.cr -> terminatorInComment("loop", TRUE)
      [] OTHER -> scanCharacter("multiLineComment")

lexMultiLineComment ==
    CASE M(ptr) = ch.star ->
            IF M(ptr + 1) = ch.slash
            THEN Iter("true", ptr + 2, line, col + 2, afterLineTerminator,
                      lexerFailed, <<>>)
            ELSE Iter("loop", ptr + 1, line, col + 1, afterLineTerminator,
                      lexerFailed, <<>>)
      [] M(ptr) = ch.nul ->
            IF atFileEnd(ptr)
            THEN Iter("false", ptr, line, col, afterLineTerminator,
                      failedAtCommentEnd(lexerFailed),
                      <<Diag("eofInComment", line, col, ptr)>>)
            ELSE nullInComment
      [] M(ptr) = ch.lf \/ M(ptr) = ch.cr -> terminatorInComment("loop", TRUE)
      [] OTHER -> scanCharacter("multiLineComment")

\* Contrast to flagAfterComment: lexToken without its
\* `afterLineTerminator = true` after a single-line comment.
flagLeftByScanner(name, alt) == alt

\* The flag after a comment scanner has returned true: lexToken sets it after
\* a single-line comment.
flagAfterComment(name, alt) == name = "singleLineComment" \/ alt

\* One iteration of a comment scanner inside lexToken: "false" returns the
\* FileEnd token the scanner has set, "true" goes back to beginLexer.
CommentStep(name, r) ==
    /\ pc = name /\ Mapped
    /\ ptr' = r.ptr
    /\ line' = CapLine(r.line)
    /\ col' = CapCol(r.col)
    /\ lexerFailed' = r.failed
    /\ diags' = Emit(r.diag)
    /\ afterLineTerminator' = IF r.next = "true"
                              THEN flagAfterComment(name, r.alt) ELSE r.alt
    /\ IF r.next = "false"
       THEN /\ Return(TokenSet(tok, "FileEnd", line, col, afterLineTerminator), TRUE)
            /\ tokStart' = ptr
       ELSE /\ pc' = IF r.next = "true" THEN "beginLexer" ELSE name
            /\ UNCHANGED <<tok, tokSet, tokStart, fileEnds>>
    /\ UNCHANGED <<pair, buf, tail, strictModeEnabled, startPtr, startCol, quote,
                   callPtr, callDiags>>

SingleLineCommentStep == CommentStep("singleLineComment", lexSingleLineComment)

MultiLineCommentStep == CommentStep("multiLineComment", lexMultiLineComment)

----------------------------------------------------------------------------
(* lexDoubleQuoteStrLiteral and lexSingleQuoteStrLiteral, one loop          *)
(* iteration per step; they differ in the closing byte only.               *)

\* Contrast to StringClose: a scanner that either quote closes.
StringCloseAtEitherQuote ==
    /\ pc = "string" /\ Mapped
    /\ M(ptr) \in {ch.dq, ch.sq}
    /\ Return(TokenSetText(tok, "StringLiteral", line, startCol,
                           afterLineTerminator, <<startPtr, ptr - startPtr>>),
              TRUE)
    /\ ptr' = ptr + 1
    /\ col' = CapCol(col + 1)
    /\ tokStart' = startPtr - 1
    /\ UNCHANGED <<pair, buf, tail, strictModeEnabled, line, lexerFailed,
                   afterLineTerminator, startPtr, startCol, quote,
                   callPtr, callDiags, diags>>

\* Contrast to StringClose: a scanner that a line feed or a carriage return
\* ends as the closing quote does.
StringCloseAtLineEnd ==
    /\ pc = "string" /\ Mapped
    /\ M(ptr) \in {quote, ch.lf, ch.cr}
    /\ Return(TokenSetText(tok, "StringLiteral", line, startCol,
                           afterLineTerminator, <<startPtr, ptr - startPtr>>),
              TRUE)
    /\ ptr' = ptr + 1
    /\ col' = CapCol(col + 1)
    /\ tokStart' = startPtr - 1
    /\ UNCHANGED <<pair, buf, tail, strictModeEnabled, line, lexerFailed,
                   afterLineTerminator, startPtr, startCol, quote,
                   callPtr, callDiags, diags>>

\* The closing quote: set the token, consume the quote, return.
StringClose ==
    /\ pc = "string" /\ Mapped
    /\ M(ptr) = quote
    /\ Return(TokenSetText(tok, "StringLiteral", line, startCol,
                           afterLineTerminator, <<startPtr, ptr - startPtr>>),
              TRUE)
    /\ ptr' = ptr + 1
    /\ col' = CapCol(col + 1)
    /\ tokStart' = startPtr - 1
    /\ UNCHANGED <<pair, buf, tail, strictModeEnabled, line, lexerFailed,
                   afterLineTerminator, startPtr, startCol, quote,
                   callPtr, callDiags, diags>>

\* Any other byte.  Stepping over the sentinel at endPtr leaves the buffer:
\* what lies behind it is whatever the process has mapped there.
stringStepBy(r) ==
    /\ ptr' = r.ptr
    /\ col' = CapCol(r.col)
    /\ lexerFailed' = r.failed
    /\ diags' = Emit(r.diag)

\* What may lie behind the sentinel: anything, but in the run that is
\* compared with the first instance's run alone, what that run found there.
mappedBehind ==
    IF pair.phase = "paired" /\ pair.me = 1 THEN {pair.mem} ELSE Tails

StringStep ==
    /\ pc = "string" /\ Mapped
    /\ M(ptr) # quote
    /\ stringStepBy(scanCharacter("string"))
    /\ IF ptr = endPtr THEN tail' \in mappedBehind ELSE tail' = tail
    /\ UNCHANGED <<pair, buf, strictModeEnabled, line, tok, pc, afterLineTerminator,
                   startPtr, startCol, quote,
                   callPtr, callDiags, tokStart, tokSet,
                   fileEnds>>

\* The running call reads an unmapped byte: the process dies.
Fault ==
    /\ Running /\ ReadsTo > MemLen
    /\ pc' = "fault"
    /\ UNCHANGED <<pair, buf, tail, strictModeEnabled, ptr, line, col, lexerFailed,
                   tok, afterLineTerminator, startPtr, startCol, quote,
                   callPtr, callDiags,
                   tokStart, tokSet, fileEnds, diags>>

----------------------------------------------------------------------------

Next ==
    \/ LexToken
    \/ FileEnd
    \/ UnexpectedNull
    \/ LineTerminator
    \/ PunctuatorToken
    \/ CommentOpen
    \/ NumericLiteral
    \/ StringOpen
    \/ Unhandled
    \/ SingleLineCommentStep
    \/ MultiLineCommentStep
    \/ StringClose
    \/ StringStep
    \/ Fault

Spec == Init /\ [][Next]_vars

----------------------------------------------------------------------------
(* Two Lexer instances.  The fields of class Lexer, the token slot of its  *)
(* caller and the locals of its running call belong to one instance; the   *)
(* variables hold those of the instance that runs, pair.asleep those of    *)
(* the other.  UserOpts::strictModeEnabled and llvm::errs() are the        *)
(* process's.  The first instance runs alone first (phase "alone"), then   *)
(* a second one is constructed and the first scans its buffer again, the   *)
(* calls of the two being made in any order (phase "paired").              *)

\* An instance over buffer b as its constructor leaves it, its caller's
\* token slot being t.
Constructed(b, t) ==
    [buf |-> b, tail |-> <<>>, ptr |-> Lexer(b), line |-> 1, col |-> 1,
     lexerFailed |-> FALSE, tok |-> t, pc |-> "constructed",
     afterLineTerminator |-> FALSE, startPtr |-> 0, startCol |-> 0,
     quote |-> 0, callPtr |-> Lexer(b), callDiags |-> 0, tokStart |-> 0,
     tokSet |-> FALSE, fileEnds |-> 0]

\* The instance that runs.
Awake ==
    [buf |-> buf, tail |-> tail, ptr |-> ptr, line |-> line, col |-> col,
     lexerFailed |-> lexerFailed, tok |-> tok, pc |-> pc,
     afterLineTerminator |-> afterLineTerminator, startPtr |-> startPtr,
     startCol |-> startCol, quote |-> quote, callPtr |-> callPtr,
     callDiags |-> callDiags, tokStart |-> tokStart, tokSet |-> tokSet,
     fileEnds |-> fileEnds]

\* Instance r runs from the next state on.
Wake(r) ==
    /\ buf' = r.buf /\ tail' = r.tail /\ ptr' = r.ptr
    /\ line' = r.line /\ col' = r.col /\ lexerFailed' = r.lexerFailed
    /\ tok' = r.tok /\ pc' = r.pc
    /\ afterLineTerminator' = r.afterLineTerminator
    /\ startPtr' = r.startPtr /\ startCol' = r.startCol /\ quote' = r.quote
    /\ callPtr' = r.callPtr /\ callDiags' = r.callDiags
    /\ tokStart' = r.tokStart /\ tokSet' = r.tokSet /\ fileEnds' = r.fileEnds

PairAlpha == {ch.d0, ch.lf, ch.slash, ch.star, ch.dq, ch.nul, ch.a}
OtherAlpha == {ch.d0}

PairInit ==
    /\ buf \in SeqsUpTo(PairAlpha, MaxPairLen)
    /\ strictModeEnabled \in {TRUE, FALSE}
    /\ tok \in IndeterminateTokens
    /\ diags = <<>>
    /\ pair = Pair("alone", <<>>, <<>>, tok, <<>>, <<>>)
    /\ tail = <<>>
    /\ ptr = Lexer(buf)
    /\ line = 1
    /\ col = 1
    /\ lexerFailed = FALSE
    /\ pc = "constructed"
    /\ afterLineTerminator = FALSE
    /\ startPtr = 0
    /\ startCol = 0
    /\ quote = 0
    /\ callPtr = ptr
    /\ callDiags = 0
    /\ tokStart = 0
    /\ tokSet = FALSE
    /\ fileEnds = 0

\* The first run has ended with a call's return or the process's death.  A
\* second instance is constructed over a buffer of its own and the first
\* instance is constructed anew over its buffer, to scan it again.
SecondLexer ==
    /\ pair.phase = "alone" /\ pc \in {"returned", "fault"}
    /\ \E b \in SeqsUpTo(OtherAlpha, MaxPairLen) :
          pair' = Pair("paired", <<>>, pair.seen, pair.tok0, tail,
                       <<Constructed(b, pair.tok0)>>)
    /\ Wake(Constructed(buf, pair.tok0))
    /\ diags' = <<>>
    /\ UNCHANGED strictModeEnabled

\* Contrast to Switch: two lexers whose failed flag is one flag of the
\* process.
SwitchSharingFailed ==
    /\ pair.phase = "paired" /\ pc \in {"constructed", "returned"}
    /\ pair' = [pair EXCEPT !.me = 3 - @, !.asleep = <<Awake>>]
    /\ Wake([pair.asleep[1] EXCEPT !.lexerFailed = lexerFailed])
    /\ UNCHANGED <<strictModeEnabled, diags>>

\* Between two calls of lexToken the caller turns to the other instance:
\* each instance keeps its own fields and token slot.
Switch ==
    /\ pair.phase = "paired" /\ pc \in {"constructed", "returned"}
    /\ pair' = [pair EXCEPT !.me = 3 - @, !.asleep = <<Awake>>]
    /\ Wake(pair.asleep[1])
    /\ UNCHANGED <<strictModeEnabled, diags>>

PairNext == Next \/ SecondLexer \/ Switch

PairSpec == PairInit /\ [][PairNext]_vars

\* The caller calls lexToken again and again, and a running call goes on;
\* these runs are followed on the shorter sources.
FairInit == Init /\ Len(buf) <= MaxFairLen

FairSpec == FairInit /\ [][Next]_vars /\ WF_vars(Next)

----------------------------------------------------------------------------
(* Properties.  Returned: a call has returned having set the token slot.   *)

Returned == pc = "returned" /\ tokSet

ReturnedFileEnd == Returned /\ tok.kind = "FileEnd"

\* C1: for every source buffer, a caller that calls lexToken again and again
\* eventually receives a FileEnd token: every call returns, and after
\* finitely many calls the returned kind is FileEnd.  (Under FairSpec.)
EventuallyFileEnd == <>ReturnedFileEnd

\* C2: every lexToken call that returns a token while the scan pointer is not
\* at the buffer end has left the pointer strictly greater than it was when
\* the call began.
ReturnedTokenConsumes == (Returned /\ ptr # endPtr) => ptr > callPtr

\* C3: in every reachable state the scan pointer lies in [bufPtr, endPtr].
PtrInBuffer == bufPtr <= ptr /\ ptr <= endPtr

\* C4: every lexToken call that returns has assigned the token slot during
\* that call, whatever the leading byte of the remaining input is.
ReturnAssignsToken == pc = "returned" => tokSet

\* A line terminator starts at position i: \n, \r (alone or before \n),
\* U+2028 (E2 80 A8) or U+2029 (E2 80 A9).
lineTerminatorStarts(i) ==
    \/ M(i) = ch.lf
    \/ M(i) = ch.cr
    \/ M(i) = ch.xE2 /\ M(i + 1) = ch.x80 /\ M(i + 2) \in {ch.xA8, ch.xA9}

\* Some line terminator starts in [from, to).
lineTerminatorBetween(from, to) ==
    \E i \in from..(to - 1) : lineTerminatorStarts(i)

\* C5: for every token returned, afterLineTerminator is true iff at least one
\* line terminator lies between the end of the previous token (or the
\* content start), where the call began, and the first byte of this token,
\* terminators inside skipped comments included.
FlagTellsLineTerminator ==
    Returned =>
        (tok.afterLineTerminator <=> lineTerminatorBetween(callPtr, tokStart))

\* A token follows a single-line comment that a line terminator has ended.
FlagAfterCommentSeen ==
    /\ Returned /\ tok.afterLineTerminator /\ callPtr < tokStart
    /\ M(callPtr) = ch.slash /\ M(callPtr + 1) = ch.slash
    /\ tok.kind = "Semicolon"

\* The position (line, col) of the byte at `to`, counted from the position
\* (l, c) of the byte at i: a line terminator starts a line at column 1, any
\* other character is one column, a byte that starts no UTF-8 sequence is no
\* character.
RECURSIVE positionFrom(_, _, _, _)
positionFrom(i, to, l, c) ==
    IF i >= to THEN [line |-> l, col |-> c]
    ELSE IF M(i) = ch.cr /\ M(i + 1) = ch.lf THEN positionFrom(i + 2, to, l + 1, 1)
    ELSE IF M(i) = ch.lf \/ M(i) = ch.cr THEN positionFrom(i + 1, to, l + 1, 1)
    ELSE IF lineTerminatorStarts(i) THEN positionFrom(i + 3, to, l + 1, 1)
    ELSE IF decodeUTF8(i).ok THEN positionFrom(i + decodeUTF8(i).size, to, l, c + 1)
    ELSE positionFrom(i + 1, to, l, c)

positionOf(to) == positionFrom(Lexer(buf), to, 1, 1)

tokenAt(t, pos) == t.line = pos.line /\ t.col = pos.col

\* C6: for every token returned after any sequence of earlier tokens,
\* tok.line is 1 plus the number of line terminators before the token's first
\* byte and tok.col is 1 plus the number of characters between the last
\* preceding line terminator (or the content start) and that byte.
TokenPositionIsTrue == Returned => tokenAt(tok, positionOf(tokStart))

\* C7: a FileEnd token is produced only where the scan pointer equals endPtr;
\* a NUL byte at an earlier position never produces it.
FileEndOnlyAtEnd == ReturnedFileEnd => (ptr = endPtr /\ tokStart = endPtr)

\* FileEnd is returned for a source that holds a NUL before its end.
FileEndPastEmbeddedNul ==
    /\ ReturnedFileEnd
    /\ \E i \in 1..Len(buf) : buf[i] = ch.nul

\* Once FileEnd has been returned: what a step may do.
afterFileEnd ==
    /\ ptr' = ptr /\ line' = line /\ col' = col /\ lexerFailed' = lexerFailed
    /\ pc' \in {"beginLexer", "returned"}
    /\ pc' = "returned" => (tokSet' /\ tok'.kind = "FileEnd")

\* C8: once a lexToken call has returned FileEnd, every later call also
\* returns FileEnd and leaves the scan pointer, line, col and the failed flag
\* unchanged.
FileEndIsFinal == [][fileEnds > 0 => afterFileEnd]_vars

\* A later call has returned FileEnd again, on a source that is not empty.
FileEndReturnedAgain ==
    ReturnedFileEnd /\ fileEnds = MaxFileEnds /\ Len(buf) > 0

\* C9: at any point of a scan, failed() is true iff at least one diagnostic
\* has been emitted since construction.
FailedIffDiagnosed == lexerFailed <=> diags # <<>>

\* C10: the failed flag is false at construction and monotone: once true, no
\* sequence of lexToken calls makes it false again.
FailedIsSticky ==
    /\ [](pc = "constructed" => ~lexerFailed)
    /\ [][lexerFailed => lexerFailed']_vars

\* A failed scan has gone on to return a numeric token that raised no
\* diagnostic of its own.
FailedKeptByLaterToken ==
    /\ Returned /\ lexerFailed /\ Len(diags) = 1
    /\ isNumberStart(M(tokStart)) /\ diags[1].col < tok.col

\* Diagnostics i < j of the scan: the later one is not at an earlier source
\* position, and it is not the same message at the same position again.
diagnosedOnceInOrder(ds) ==
    \A i, j \in 1..Len(ds) :
        i < j => /\ ds[i].at <= ds[j].at
                 /\ ds[i].at = ds[j].at => ds[i].kind # ds[j].kind

\* C11: over a whole scan each offending input position causes exactly one
\* diagnostic, and diagnostics are emitted in increasing order of the source
\* position they refer to.
DiagnosedOnceInSourceOrder == diagnosedOnceInOrder(diags)

\* The operators and punctuators of TokenKind, each with its spelling.
Op(kind, bytes) == [kind |-> kind, bytes |-> bytes]

Operators ==
    { Op("LeftCurly", <<ch.lcurly>>), Op("RightCurly", <<ch.rcurly>>),
      Op("LeftParenthasis", <<ch.lpar>>), Op("RightParenthasis", <<ch.rpar>>),
      Op("LeftSquare", <<ch.lsq>>), Op("RightSquare", <<ch.rsq>>),
      Op("Dot", <<ch.dot>>), Op("DotDotDot", <<ch.dot, ch.dot, ch.dot>>),
      Op("Semicolon", <<ch.semi>>), Op("Comma", <<ch.comma>>),
      Op("Less", <<ch.lt>>), Op("Greater", <<ch.gt>>),
      Op("LessEquals", <<ch.lt, ch.eq>>), Op("GreaterEquals", <<ch.gt, ch.eq>>),
      Op("EqualsEquals", <<ch.eq, ch.eq>>),
      Op("ExclaimationEquals", <<ch.excl, ch.eq>>),
      Op("EqualsEqualsEquals", <<ch.eq, ch.eq, ch.eq>>),
      Op("ExclaimationEqualsEquals", <<ch.excl, ch.eq, ch.eq>>),
      Op("EqualsGreater", <<ch.eq, ch.gt>>),
      Op("Plus", <<ch.plus>>), Op("Minus", <<ch.minus>>),
      Op("AsteriskAsterisk", <<ch.star, ch.star>>), Op("Asterisk", <<ch.star>>),
      Op("Slash", <<ch.slash>>), Op("Percent", <<ch.pct>>),
      Op("PlusPlus", <<ch.plus, ch.plus>>),
      Op("MinusMinus", <<ch.minus, ch.minus>>),
      Op("LessLess", <<ch.lt, ch.lt>>), Op("LessSlash", <<ch.lt, ch.slash>>),
      Op("GreaterGreater", <<ch.gt, ch.gt>>),
      Op("GreaterGreaterGreater", <<ch.gt, ch.gt, ch.gt>>),
      Op("Ampersand", <<ch.amp>>), Op("Bar", <<ch.bar>>),
      Op("Caret", <<ch.caret>>), Op("Exclaimation", <<ch.excl>>),
      Op("Tilde", <<ch.tilde>>),
      Op("AmpersandAmpersand", <<ch.amp, ch.amp>>),
      Op("BarBar", <<ch.bar, ch.bar>>),
      Op("Question", <<ch.quest>>),
      Op("QuestionQuestion", <<ch.quest, ch.quest>>),
      Op("QuestionDot", <<ch.quest, ch.dot>>),
      Op("Colon", <<ch.colon>>), Op("Equals", <<ch.eq>>),
      Op("PlusEquals", <<ch.plus, ch.eq>>),
      Op("MinusEquals", <<ch.minus, ch.eq>>),
      Op("AsteriskEquals", <<ch.star, ch.eq>>),
      Op("AsteriskAsteriskEquals", <<ch.star, ch.star, ch.eq>>),
      Op("SlashEquals", <<ch.slash, ch.eq>>),
      Op("PercentEquals", <<ch.pct, ch.eq>>),
      Op("LessLessEquals", <<ch.lt, ch.lt, ch.eq>>),
      Op("GreaterGreaterEquals", <<ch.gt, ch.gt, ch.eq>>),
      Op("GreaterGreaterGreaterEquals", <<ch.gt, ch.gt, ch.gt, ch.eq>>),
      Op("AmpersandEquals", <<ch.amp, ch.eq>>),
      Op("BarEquals", <<ch.bar, ch.eq>>),
      Op("CaretEquals", <<ch.caret, ch.eq>>),
      Op("BarBarEquals", <<ch.bar, ch.bar, ch.eq>>),
      Op("AmpersandAmpersandEquals", <<ch.amp, ch.amp, ch.eq>>),
      Op("QuestionQuestionEquals", <<ch.quest, ch.quest, ch.eq>>) }

\* The spelling of op is a prefix of the input at p.
spelledAt(op, p) == \A i \in 1..Len(op.bytes) : M(p + i - 1) = op.bytes[i]

operatorsAt(p) == {op \in Operators : spelledAt(op, p)}

isLongest(op, ops) == \A other \in ops : Len(other.bytes) <= Len(op.bytes)

\* The token at tokStart is the operator op, and no operator with a longer
\* spelling is a prefix of the input there.
longestOperatorIs(kind, ops) ==
    \E op \in ops : op.kind = kind /\ isLongest(op, ops)

\* The returned token starts with a punctuator byte (a '/' that opens a
\* comment is no token: the call goes on behind the comment).
ReturnedOperator == Returned /\ operatorsAt(tokStart) # {}

\* C12: when the remaining input starts with an operator or punctuator byte,
\* the token kind returned is the longest operator of the token set that is a
\* prefix of the remaining input.
LongestOperatorReturned ==
    ReturnedOperator => longestOperatorIs(tok.kind, operatorsAt(tokStart))

\* >>>= has been returned as one GreaterGreaterGreaterEquals.
FourByteOperatorReturned ==
    ReturnedOperator /\ tok.kind = "GreaterGreaterGreaterEquals"

\* The length in bytes of the operator token kind.
operatorLength(kind) == Len((CHOOSE op \in Operators : op.kind = kind).bytes)

advancedBy(k) == ptr = tokStart + k /\ col = CapCol(tok.col + k)

\* C13: for every punctuator or operator token of length k bytes, the call
\* that returns it advances both the scan pointer and col by exactly k.
OperatorAdvancesByLength ==
    ReturnedOperator => advancedBy(operatorLength(tok.kind))

\* The kinds whose tok.set call passes a text.
NumericTextKinds ==
    {"DecimalLiteral", "DecimalBigIntLiteral", "FloatLiteral", "HexLiteral",
     "HexBigIntLiteral", "OctalLiteral", "OctalBigIntLiteral", "BinaryLiteral",
     "BinaryBigIntLiteral"}

ReturnedNumericText == Returned /\ tok.kind \in NumericTextKinds

ReturnedString == Returned /\ tok.kind = "StringLiteral"

textFirst == tok.text[1]
textEnd == tok.text[1] + tok.text[2]

\* The bytes a numeric literal of the kind is written with, separators
\* included; the prefix letters x, o, b (b where it is no digit) and the
\* suffix n are none of them.
isLiteralByte(kind, b) ==
    \/ b = ch.us
    \/ kind \in {"DecimalLiteral", "DecimalBigIntLiteral"} /\ isDigit(b)
    \/ kind = "FloatLiteral"
         /\ (isDigit(b) \/ b \in {ch.dot, ch.e, ch.E, ch.plus, ch.minus})
    \/ kind \in {"HexLiteral", "HexBigIntLiteral"} /\ isHexDigit(b)
    \/ kind \in {"OctalLiteral", "OctalBigIntLiteral"} /\ isOctalDigit(b)
    \/ kind \in {"BinaryLiteral", "BinaryBigIntLiteral"} /\ isBinaryDigit(b)

\* The text [from, to) is a range of the source buffer, inside the bytes the
\* call has consumed.
textInConsumedSource(from, to) ==
    /\ bufPtr <= from /\ from <= to /\ to <= endPtr
    /\ callPtr <= from /\ to <= ptr

\* A numeric text: literal bytes only (no prefix, no suffix), not ending in
\* an underscore.
numericTextTrimmed(kind, from, to) ==
    /\ \A i \in from..(to - 1) : isLiteralByte(kind, M(i))
    /\ to > from => M(to - 1) # ch.us

\* A string text: the bytes between the delimiters, neither of them inside.
stringTextTrimmed(from, to) ==
    /\ M(from - 1) = quote /\ M(to) = quote
    /\ \A i \in from..(to - 1) : M(i) # quote

\* The trimming rules alone.
TextTrimmed ==
    /\ ReturnedNumericText => numericTextTrimmed(tok.kind, textFirst, textEnd)
    /\ ReturnedString => stringTextTrimmed(textFirst, textEnd)

\* C14: whenever a numeric literal token scanned by a literal scanner or a
\* StringLiteral token is produced, its text is a contiguous range of the
\* source buffer inside the bytes consumed by that call, and it contains no
\* radix prefix, no BigInt suffix n, no quote delimiter and no rejected
\* trailing underscore.
TextIsTrimmedSourceRange ==
    /\ TextTrimmed
    /\ (ReturnedNumericText \/ ReturnedString)
          => textInConsumedSource(textFirst, textEnd)

\* b is a digit of the radix of a literal of the kind.
isDigitOfKind(kind, b) ==
    \/ kind \in {"DecimalLiteral", "DecimalBigIntLiteral", "FloatLiteral"}
         /\ isDigit(b)
    \/ kind \in {"HexLiteral", "HexBigIntLiteral"} /\ isHexDigit(b)
    \/ kind \in {"OctalLiteral", "OctalBigIntLiteral"} /\ isOctalDigit(b)
    \/ kind \in {"BinaryLiteral", "BinaryBigIntLiteral"} /\ isBinaryDigit(b)

\* The literal returned has ended at an underscore that no digit of its radix
\* follows.
LiteralEndsAtBadSeparator ==
    /\ ReturnedNumericText
    /\ M(textEnd) = ch.us /\ ~isDigitOfKind(tok.kind, M(textEnd + 1))

separatorDiagnosticsAt(p) ==
    {i \in 1..Len(diags) : diags[i].kind = "separator" /\ diags[i].at = p}

\* C15: in every numeric literal scanner an underscore that is not followed
\* by a valid digit of that radix emits exactly one 'expected digit after
\* numeric separator' diagnostic, ends the literal with the underscore
\* excluded from the text, and leaves the scan pointer just past the
\* underscore.
BadSeparatorDiagnosedAndConsumed ==
    LiteralEndsAtBadSeparator =>
        /\ Cardinality(separatorDiagnosticsAt(textEnd)) = 1
        /\ ptr = textEnd + 1

\* The diagnostics the running/last call has emitted.
diagsOfCall == SubSeq(diags, callDiags + 1, Len(diags))

\* The end of the digits that start at p, each underscore among them between
\* two digits: the first position that continues them no more.
RECURSIVE separatedDigitsEnd(_)
separatedDigitsEnd(p) ==
    IF isDigit(M(p + 1)) THEN separatedDigitsEnd(p + 1)
    ELSE IF M(p + 1) = ch.us /\ isDigit(M(p + 2)) THEN separatedDigitsEnd(p + 2)
    ELSE p + 1

\* A decimal integer stands at p and ends at e: it starts with 1..9 and is
\* followed by neither an underscore, a BigInt suffix nor a fraction.
isDecimalInteger(p, e) ==
    /\ isDigit(M(p)) /\ M(p) # ch.d0
    /\ M(e) \notin {ch.us, ch.n, ch.dot}

hasSeparator(from, to) == \E i \in from..(to - 1) : M(i) = ch.us

\* The call has returned the decimal integer [p, e) as one literal.
oneDecimalLiteral(p, e) ==
    /\ tok.kind = "DecimalLiteral" /\ tok.text = <<p, e - p>>
    /\ ptr = e /\ diagsOfCall = <<>>

\* C16 (as the code has it): a decimal integer whose underscores each stand
\* between two digits is returned by one lexToken call as a single
\* DecimalLiteral with no diagnostic, and the token's text spans the whole
\* literal, separator characters included.
SeparatedDecimalIsOneLiteral ==
    (Returned /\ isDecimalInteger(tokStart, separatedDigitsEnd(tokStart)))
        => oneDecimalLiteral(tokStart, separatedDigitsEnd(tokStart))

\* A decimal integer with a separator inside has been returned.
SeparatedDecimalReturned ==
    /\ Returned /\ isDecimalInteger(tokStart, separatedDigitsEnd(tokStart))
    /\ hasSeparator(tokStart, separatedDigitsEnd(tokStart))

\* C16 (as stated): ... and the token's lexeme excludes the separator
\* characters.
SeparatedDecimalLexemeHasNoSeparator ==
    (Returned /\ isDecimalInteger(tokStart, separatedDigitsEnd(tokStart)))
        => /\ tok.kind = "DecimalLiteral" /\ diagsOfCall = <<>>
           /\ ~hasSeparator(textFirst, textEnd)

\* The digits a radix prefix letter asks for.
digitsOfPrefix(letter) ==
    CASE letter \in {ch.x, ch.X} -> (48..57) \cup (65..70) \cup (97..102)
      [] letter \in {ch.o, ch.O} -> 48..55
      [] letter \in {ch.b, ch.B} -> {48, 49}
      [] OTHER -> {}

\* At p stands a radix prefix that no digit of its radix follows.
isBareRadixPrefix(p) ==
    /\ M(p) = ch.d0
    /\ M(p + 1) \in {ch.x, ch.X, ch.o, ch.O, ch.b, ch.B}
    /\ M(p + 2) \notin digitsOfPrefix(M(p + 1))

radixDiagnosticsOf(ds) == {i \in 1..Len(ds) : ds[i].kind = "radix"}

\* The call has answered the bare prefix at p: one malformed-radix
\* diagnostic about the byte behind the prefix, failed set, a ZeroLiteral at
\* the leading 0, ptr and col behind the two prefix bytes.
bareRadixPrefixRecovered(p, ds) ==
    /\ Cardinality(radixDiagnosticsOf(ds)) = 1
    /\ ds # <<>> /\ ds[Len(ds)].kind = "radix" /\ ds[Len(ds)].at = p + 2
    /\ lexerFailed
    /\ tok.kind = "ZeroLiteral" /\ tok.line = line /\ col = CapCol(tok.col + 2)
    /\ ptr = p + 2

\* C17: when a radix prefix is not immediately followed by a valid digit of
\* that radix, lexToken emits exactly one malformed-radix diagnostic, sets
\* failed, returns a ZeroLiteral positioned at the leading 0, and leaves the
\* scan pointer just past the two prefix bytes.
BareRadixPrefixIsZeroLiteral ==
    (Returned /\ isBareRadixPrefix(tokStart))
        => bareRadixPrefixRecovered(tokStart, diagsOfCall)

\* A bare octal prefix before a decimal digit has been answered.
BareOctalPrefixReturned ==
    /\ Returned /\ isBareRadixPrefix(tokStart)
    /\ M(tokStart + 1) = ch.o /\ M(tokStart + 2) = ch.d8

\* The end of the digits that start at p, digits being the bytes of the set
\* given and each underscore among them standing before a digit.
RECURSIVE digitRunEnd(_, _)
digitRunEnd(p, digits) ==
    IF M(p) \in digits THEN digitRunEnd(p + 1, digits)
    ELSE IF M(p) = ch.us /\ M(p + 1) \in digits THEN digitRunEnd(p + 2, digits)
    ELSE p

IntegerForm(from, digits, kind, big) ==
    [from |-> from, digits |-> digits, kind |-> kind, big |-> big]

\* The integer literal that starts at p: where its digits start, which bytes
\* are its digits, its kind and that kind's BigInt variant ("" where there is
\* none).  The digits of a legacy octal literal start behind the leading 0.
integerFormAt(p) ==
    IF M(p) \in 49..57
    THEN IntegerForm(p, 48..57, "DecimalLiteral", "DecimalBigIntLiteral")
    ELSE IF M(p) = ch.d0 /\ M(p + 1) \in 48..55
    THEN IntegerForm(p + 1, 48..55, "OctalLiteral", "")
    ELSE IF M(p) = ch.d0 /\ M(p + 2) \in digitsOfPrefix(M(p + 1))
    THEN IntegerForm(p + 2, digitsOfPrefix(M(p + 1)),
                     CASE M(p + 1) \in {ch.x, ch.X} -> "HexLiteral"
                       [] M(p + 1) \in {ch.o, ch.O} -> "OctalLiteral"
                       [] OTHER -> "BinaryLiteral",
                     CASE M(p + 1) \in {ch.x, ch.X} -> "HexBigIntLiteral"
                       [] M(p + 1) \in {ch.o, ch.O} -> "OctalBigIntLiteral"
                       [] OTHER -> "BinaryBigIntLiteral")
    ELSE IntegerForm(p, {}, "", "")

\* The digits of the form f are immediately followed by n.
hasSuffix(f) == f.kind # "" /\ M(digitRunEnd(f.from, f.digits)) = ch.n

\* The call has returned the digits [f.from, e) followed by n: as the BigInt
\* variant with ptr behind the n, or, for a legacy octal literal, as an
\* OctalLiteral with ptr at the n.
suffixHandled(f, e) ==
    /\ tok.text = <<f.from, e - f.from>>
    /\ IF f.big # "" THEN tok.kind = f.big /\ ptr = e + 1
       ELSE tok.kind = "OctalLiteral" /\ ptr = e

\* C18: for decimal, hex, octal and binary integer literals, digits
\* immediately followed by n yield the BigInt variant of that radix's kind
\* with the n consumed but excluded from the text; for a legacy octal
\* literal the n is not consumed and the kind stays OctalLiteral.
BigIntSuffixByRadix ==
    (Returned /\ hasSuffix(integerFormAt(tokStart)))
        => suffixHandled(integerFormAt(tokStart),
                         digitRunEnd(integerFormAt(tokStart).from,
                                     integerFormAt(tokStart).digits))

\* A prefixed octal literal with the suffix has been returned.
OctalBigIntReturned ==
    /\ Returned /\ hasSuffix(integerFormAt(tokStart))
    /\ integerFormAt(tokStart).big = "OctalBigIntLiteral"

\* A legacy octal literal before an n has been returned.
LegacyOctalBeforeSuffixReturned ==
    /\ Returned /\ hasSuffix(integerFormAt(tokStart))
    /\ integerFormAt(tokStart).big = ""

\* A legacy octal literal stands at p: 0 followed directly by an octal digit.
isLegacyOctal(p) == M(p) = ch.d0 /\ M(p + 1) \in 48..55

legacyOctalDiagnosticsOf(ds) ==
    {i \in 1..Len(ds) : ds[i].kind = "legacyOctal"}

\* The token of the legacy octal literal at p, as the source alone fixes it.
legacyOctalToken(p, e) ==
    tok.kind = "OctalLiteral" /\ tok.text = <<p + 1, e - (p + 1)>>

\* C19: for every legacy octal literal the OctalLiteral token produced is
\* the same whether strict mode is on or off; with strict mode on exactly
\* one legacy-octal diagnostic is emitted and failed is set, with strict
\* mode off no legacy-octal diagnostic is emitted.
LegacyOctalDiagnosedInStrictMode ==
    (Returned /\ isLegacyOctal(tokStart))
        => /\ legacyOctalToken(tokStart, digitRunEnd(tokStart + 1, 48..55))
           /\ Cardinality(legacyOctalDiagnosticsOf(diagsOfCall))
                  = (IF strictModeEnabled THEN 1 ELSE 0)
           /\ (strictModeEnabled => lexerFailed)

\* The first position behind i that holds the byte b, or the position behind
\* the mapped bytes when none does.
RECURSIVE firstByteFrom(_, _)
firstByteFrom(b, i) ==
    IF i > MemLen \/ M(i) = b THEN i ELSE firstByteFrom(b, i + 1)

\* The closing quote of the string opened at p.
closingQuoteOf(p) == firstByteFrom(M(p), p + 1)

\* The string opened at p has been returned as one StringLiteral that ends
\* at q.
stringReturnedTo(p, q) ==
    /\ M(p) \in {ch.dq, ch.sq} /\ M(q) = M(p)
    /\ tok.text = <<p + 1, q - (p + 1)>>
    /\ ptr = q + 1

\* C20: for a string opened by " or ', lexToken returns one StringLiteral
\* whose text is exactly the bytes between the opening quote and the first
\* later byte equal to that same quote, and the scan pointer ends just past
\* the closing quote; until then the scanner has not passed such a byte.
StringEndsAtFirstSameQuote ==
    /\ ReturnedString => stringReturnedTo(tokStart, closingQuoteOf(tokStart))
    /\ pc = "string" =>
          /\ M(startPtr - 1) \in {ch.dq, ch.sq}
          /\ ptr <= closingQuoteOf(startPtr - 1)

\* The text holds the byte b.
textHolds(b) == \E i \in textFirst..(textEnd - 1) : M(i) = b

\* A string closed inside the source has been returned whose text holds the
\* other quote and a backslash before it.
StringWithOtherQuoteReturned ==
    /\ ReturnedString /\ ptr <= endPtr
    /\ textHolds(IF M(tokStart) = ch.dq THEN ch.sq ELSE ch.dq)
    /\ textHolds(ch.bslash)

\* A string closed inside the source has been returned whose text holds a
\* two-byte UTF-8 sequence.
StringWithSequenceReturned ==
    /\ ReturnedString /\ ptr <= endPtr
    /\ \E i \in textFirst..(textEnd - 2) : M(i) = ch.xC3 /\ M(i + 1) = ch.xA9

\* The step consumes the byte at i, the '\r' of a "\r\n" pair.
consumesPairAt(i) ==
    /\ i >= ptr /\ i < ptr'
    /\ M(i) = ch.cr /\ M(i + 1) = ch.lf

\* The step that consumes the '\r' of the pair at i consumes the pair and
\* counts it as one line terminator.
pairCountedOnce(i) ==
    /\ ptr' = i + 2
    /\ line' = CapLine(line + 1)
    /\ col' = 1

\* C21: wherever the byte pair \r\n is consumed during a scan, line
\* increases by exactly 1 and col becomes 1; the pair is never counted as
\* two terminators and never as zero.
CrLfCountedOnce ==
    [][\A i \in 1..MemLen : consumesPairAt(i) => pairCountedOnce(i)]_vars

\* The same outside the string scanners.
CrLfCountedOnceOutsideStrings ==
    [][pc # "string" =>
          \A i \in 1..MemLen : consumesPairAt(i) => pairCountedOnce(i)]_vars

\* The multi-line comment scanner stands at the end of the buffer.
commentAtBufferEnd == pc = "multiLineComment" /\ ptr = endPtr

\* The step emits exactly one diagnostic, of the kind given.
emitsOne(kind) ==
    /\ Len(diags') = Len(diags) + 1
    /\ SubSeq(diags', 1, Len(diags)) = diags
    /\ diags'[Len(diags')].kind = kind

\* The step returns a FileEnd token with ptr at the end of the buffer.
returnsFileEndAtBufferEnd ==
    /\ pc' = "returned" /\ tokSet'
    /\ tok'.kind = "FileEnd"
    /\ ptr' = endPtr

\* C22: if the buffer end is reached inside a /* comment before any */,
\* lexToken emits exactly one 'unexpected end of file in multi line
\* comment' diagnostic, returns a FileEnd token and leaves the scan pointer
\* at the buffer end.
UnterminatedCommentReturnsFileEnd ==
    [][commentAtBufferEnd =>
          emitsOne("eofInComment") /\ returnsFileEndAtBufferEnd]_vars

\* The call has returned FileEnd from inside a comment, after a line
\* terminator.
FileEndInsideCommentReturned ==
    /\ ReturnedFileEnd /\ ptr = endPtr
    /\ diagsOfCall # <<>>
    /\ diagsOfCall[Len(diagsOfCall)].kind = "eofInComment"
    /\ Cardinality({i \in 1..Len(diagsOfCall) :
                      diagsOfCall[i].kind = "eofInComment"}) = 1
    /\ tok.afterLineTerminator

\* A Unicode line terminator (U+2028 or U+2029) is encoded at i, inside the
\* buffer.
unicodeTerminatorAt(i) ==
    /\ M(i) = ch.xE2 /\ M(i + 1) = ch.x80 /\ M(i + 2) \in {ch.xA8, ch.xA9}
    /\ i + 2 < endPtr

\* Where a // comment whose text starts at i ends: behind its line
\* terminator, or at the end of the buffer (or at a NUL inside it, which
\* the scanner does not pass).
RECURSIVE lineCommentEnd(_)
lineCommentEnd(i) ==
    IF i > MemLen \/ M(i) = ch.nul THEN i
    ELSE IF M(i) = ch.lf THEN i + 1
    ELSE IF M(i) = ch.cr THEN (IF M(i + 1) = ch.lf THEN i + 2 ELSE i + 1)
    ELSE IF unicodeTerminatorAt(i) THEN i + 3
    ELSE lineCommentEnd(i + 1)

\* Where a /* comment whose text starts at i ends: behind its */, or at the
\* end of the buffer (or at a NUL inside it).
RECURSIVE blockCommentEnd(_)
blockCommentEnd(i) ==
    IF i > MemLen \/ M(i) = ch.nul THEN i
    ELSE IF M(i) = ch.star /\ M(i + 1) = ch.slash THEN i + 2
    ELSE blockCommentEnd(i + 1)

\* The first position at or behind p that is neither whitespace, a line
\* terminator nor inside a comment.
RECURSIVE skipTrivia(_)
skipTrivia(p) ==
    IF M(p) \in {9, 11, 12, 32, ch.lf} THEN skipTrivia(p + 1)
    ELSE IF M(p) = ch.cr
    THEN skipTrivia(IF M(p + 1) = ch.lf THEN p + 2 ELSE p + 1)
    ELSE IF M(p) = ch.slash /\ M(p + 1) = ch.slash
    THEN skipTrivia(lineCommentEnd(p + 2))
    ELSE IF M(p) = ch.slash /\ M(p + 1) = ch.star
    THEN skipTrivia(blockCommentEnd(p + 2))
    ELSE p

\* The token returned starts at q, the first position behind the trivia
\* the call began at; it is FileEnd when that is the end of the buffer.
tokenStartsAt(q) ==
    /\ tokStart = q
    /\ q = endPtr => tok.kind = "FileEnd"

\* A comment scanner's step that ends the call.
commentEndsCall ==
    pc \in {"singleLineComment", "multiLineComment"} /\ pc' = "returned"

\* C23: whitespace, line terminators and comments never become tokens:
\* the token a call returns starts at the first byte behind the whitespace,
\* line terminators and comments the call began at, and is FileEnd when a
\* comment runs to the buffer end.
TriviaNeverBecomeTokens == Returned => tokenStartsAt(skipTrivia(callPtr))

\* A comment scanner ends the call only at the end of the buffer, with
\* FileEnd; otherwise the call goes on behind the comment.
CommentEndsCallOnlyAtBufferEnd ==
    [][commentEndsCall => ptr = endPtr /\ tok'.kind = "FileEnd" /\ tokSet']_vars

\* The call has passed a /* */ comment and returned the token behind it.
TokenBehindBlockCommentReturned ==
    /\ Returned /\ tok.kind = "Semicolon"
    /\ M(callPtr) = ch.slash /\ M(callPtr + 1) = ch.star
    /\ tokStart > callPtr

\* The call has passed a // comment and its line terminator and returned
\* the token behind it.
TokenBehindLineCommentReturned ==
    /\ Returned /\ tok.kind = "Semicolon"
    /\ M(callPtr) = ch.slash /\ M(callPtr + 1) = ch.slash
    /\ tokStart > callPtr

\* A // comment has run to the end of the buffer.
LineCommentToBufferEndReturned ==
    /\ ReturnedFileEnd
    /\ M(callPtr) = ch.slash /\ M(callPtr + 1) = ch.slash
    /\ lineCommentEnd(callPtr + 2) = endPtr

\* The position the next step of the running call dispatches on, outside
\* the string scanners.
scanPosition == IF pc = "beginLexer" THEN here ELSE ptr

\* The running call stands at a NUL byte that is not the end of the buffer.
atEmbeddedNul ==
    /\ pc \in {"beginLexer", "singleLineComment", "multiLineComment"}
    /\ M(scanPosition) = ch.nul /\ scanPosition # endPtr

\* C24: on a NUL byte that is not at the buffer end, the scanner emits one
\* 'unexpected null' diagnostic, sets failed, advances the scan pointer by
\* exactly one byte without changing line, and goes on scanning.
EmbeddedNulSkipped ==
    [][atEmbeddedNul =>
          /\ emitsOne("null") /\ lexerFailed'
          /\ ptr' = scanPosition + 1 /\ line' = line
          /\ pc' = pc]_vars

\* What the step at an embedded NUL does keep: the diagnostic, the flag and
\* the scanner it is in.
EmbeddedNulDiagnosed ==
    [][atEmbeddedNul /\ Len(diags) < MaxDiags =>
          emitsOne("null") /\ lexerFailed' /\ pc' = pc]_vars

\* The bytes EF BB BF stand at i.
bomAt(i) == M(i) = 239 /\ M(i + 1) = 187 /\ M(i + 2) = 191

\* The lexer as its constructor leaves it.
freshLexerAt(p) == ptr = p /\ line = 1 /\ col = 1 /\ ~lexerFailed

\* C25: after construction the scan pointer is at bufferStart + 3 when the
\* buffer begins with the bytes EF BB BF and at bufferStart otherwise, with
\* line = 1, col = 1 and failed = false; only one leading BOM is removed,
\* and no lexToken call removes a BOM later.
OneLeadingBomRemoved ==
    /\ [](pc = "constructed" =>
            freshLexerAt(IF bomAt(bufPtr) THEN bufPtr + 3 ELSE bufPtr))
    /\ [][pc = "beginLexer" /\ bomAt(here) => ptr' = here]_vars

\* A call made at a second BOM, behind the one the constructor removed, has
\* returned and left it where it was.
SecondBomLeft ==
    /\ pc = "returned" /\ bomAt(bufPtr) /\ bomAt(bufPtr + 3)
    /\ ptr = bufPtr + 3

\* The first byte behind an optional leading BOM.
firstContent == IF bomAt(bufPtr) THEN bufPtr + 3 ELSE bufPtr

\* The range [callPtr, ptr) of the running or last call starts where the
\* call before it ended, and grows only at its end.
rangesContiguous ==
    /\ ptr' >= ptr
    /\ callPtr' # callPtr => callPtr' = ptr /\ ptr' = ptr

\* C26: across a scan that reaches FileEnd, the byte ranges consumed by
\* successive lexToken calls are contiguous and non-overlapping, start at
\* the first byte after an optional BOM and end at the buffer end.
ConsumedRangesTileBuffer ==
    /\ [](pc = "constructed" => callPtr = firstContent /\ ptr = callPtr)
    /\ [][rangesContiguous]_vars
    /\ [](ReturnedFileEnd => callPtr <= ptr /\ ptr = endPtr)

\* A scan of a buffer with a BOM has reached FileEnd in a later call than
\* its first.
FileEndBehindTokensReturned ==
    /\ ReturnedFileEnd /\ bomAt(bufPtr)
    /\ callPtr > firstContent

\* Position <<l1, c1>> is not behind <<l2, c2>>.
notBehind(l1, c1, l2, c2) == l1 < l2 \/ (l1 = l2 /\ c1 <= c2)

\* The step moves line and col forward only: col falls only to 1 and only
\* as line grows (line grows no more once it is MaxLine).
countersForward ==
    /\ line >= 1 /\ line' >= line
    /\ col >= 1 /\ col' >= 1
    /\ col' < col => col' = 1 /\ (line' > line \/ line = MaxLine)

\* The step sets a token that is not before the token set last.
tokensForward ==
    (tokSet' /\ ~tokSet /\ tokStart # 0 /\ tok'.line < MaxLine)
        => notBehind(tok.line, tok.col, tok'.line, tok'.col)

\* C27: over any sequence of lexToken calls, line never decreases and stays
\* >= 1, col stays >= 1 and decreases only in a step that increases line
\* (where it becomes 1), so the (line, col) positions of successive tokens
\* are lexicographically non-decreasing.
PositionsNeverGoBack == [][countersForward /\ tokensForward]_vars

\* A token has been returned at the start of the second line by a call that
\* began at the line terminator behind an earlier token.
TokenOnNextLineReturned ==
    /\ Returned /\ tok.line = 2 /\ tok.col = 1 /\ col > 1
    /\ callPtr > firstContent /\ M(callPtr) = ch.lf

\* The bytes that, behind a leading 0, start a longer literal.
ZeroContinuations ==
    {ch.dot, ch.x, ch.X, ch.o, ch.O, ch.b, ch.B, ch.n} \cup (48..55)

\* The call has returned a token of the kind that starts at p and has
\* consumed n bytes and n columns.
tokenOfBytes(kind, p, n) ==
    tok.kind = kind /\ ptr = p + n /\ col = CapCol(tok.col + n)

\* C29: a leading 0 is classified by its next byte and consumed in full by
\* the same call: 0n yields ZeroBigIntLiteral and consumes 2 bytes; a 0
\* followed by any byte other than '.', x/X, o/O, b/B, n or an octal digit
\* yields ZeroLiteral and consumes exactly the single 0 byte, advancing col
\* by 1.
LeadingZeroConsumed ==
    (Returned /\ M(tokStart) = ch.d0) =>
        /\ M(tokStart + 1) = ch.n => tokenOfBytes("ZeroBigIntLiteral", tokStart, 2)
        /\ M(tokStart + 1) \notin ZeroContinuations
              => tokenOfBytes("ZeroLiteral", tokStart, 1)

\* The classification alone, and the ZeroBigIntLiteral in full.
LeadingZeroClassified ==
    (Returned /\ M(tokStart) = ch.d0) =>
        /\ M(tokStart + 1) = ch.n => tokenOfBytes("ZeroBigIntLiteral", tokStart, 2)
        /\ M(tokStart + 1) \notin ZeroContinuations => tok.kind = "ZeroLiteral"

\* The end of the integer part that starts at p: a single 0, or the digits
\* of a decimal integer; p itself when neither starts there.
integerPartEnd(p) ==
    IF M(p) = ch.d0 THEN p + 1
    ELSE IF M(p) \in 49..57 THEN digitRunEnd(p, 48..57)
    ELSE p

\* The end of the plain digits from i on.
RECURSIVE plainDigitsEnd(_)
plainDigitsEnd(i) == IF M(i) \in 48..57 THEN plainDigitsEnd(i + 1) ELSE i

\* The end of the exponent whose marker may stand at f: behind the marker,
\* an optional sign and the exponent digits; f itself without a marker.
exponentEnd(f) ==
    IF M(f) \notin {ch.e, ch.E} THEN f
    ELSE IF M(f + 1) \in {ch.plus, ch.minus} THEN digitRunEnd(f + 2, 48..57)
    ELSE digitRunEnd(f + 1, 48..57)

\* The end of the float literal whose '.' stands at d.
floatEnd(d) == exponentEnd(plainDigitsEnd(d + 1))

\* An integer part followed by '.' starts at p.
isFloatStart(p) == integerPartEnd(p) > p /\ M(integerPartEnd(p)) = ch.dot

\* The call has returned the bytes [p, e) as one FloatLiteral.
oneFloatLiteral(p, e) ==
    /\ tok.kind = "FloatLiteral" /\ tok.text = <<p, e - p>>
    /\ ptr >= e

\* C30: a run of decimal digits (or a single 0) followed by '.' always
\* yields one FloatLiteral whose text starts at the first integer digit and
\* spans the '.', the fraction digits and, when an e/E follows, the exponent
\* marker, optional sign and exponent digits.
FractionYieldsFloatLiteral ==
    (Returned /\ isFloatStart(tokStart))
        => oneFloatLiteral(tokStart, floatEnd(integerPartEnd(tokStart)))

\* A float literal with an exponent that has digits has been returned.
FloatWithExponentReturned ==
    /\ Returned /\ isFloatStart(tokStart)
    /\ M(textEnd - 2) \in {ch.e, ch.E} /\ M(textEnd - 1) \in 48..57

\* A float literal whose integer part holds a separator has been returned.
FloatBehindSeparatedDigitsReturned ==
    /\ Returned /\ isFloatStart(tokStart)
    /\ hasSeparator(tokStart, integerPartEnd(tokStart))

\* The first i results the caller of the first instance has seen are those
\* it saw when the instance ran alone.
sameResults(seen, alone, n) == \A i \in 1..n : seen[i] = alone[i]

\* C28: two Lexer instances over different buffers, each with its own token
\* slot and with their lexToken calls interleaved in any order, each
\* produce the same token sequence and the same failed flag as when run
\* alone, the strict-mode flag not being written during the scans.
InterleavedAsAlone ==
    sameResults(pair.seen, pair.alone, Min(Len(pair.seen), Len(pair.alone)))

\* The first instance has made its calls again, as it did alone, and has
\* not failed, while the second instance, run between two of those calls,
\* has scanned a legacy octal literal in strict mode and has failed.
InterleavedCallsCompared ==
    /\ pair.phase = "paired" /\ pair.me = 1
    /\ Len(pair.seen) >= 3 /\ Len(pair.alone) >= 3
    /\ pair.seen[3].tok.kind = "FileEnd" /\ ~pair.seen[3].failed
    /\ pair.seen[2].tok.kind = "StringLiteral"
    /\ pair.asleep[1].lexerFailed /\ pair.asleep[1].tok.kind = "OctalLiteral"

\* The scan stands, inside a string literal or a comment, at a byte that
\* is not ASCII and that convertUTF8Sequence does not decode.
atInvalidUTF8 ==
    /\ pc \in {"singleLineComment", "multiLineComment", "string"}
    /\ Mapped
    /\ ~isAscii(M(ptr)) /\ ~decodeUTF8(ptr).ok

\* The step skips one byte, reports it at the position it had, and stays in
\* the scanner it was in.
skipsInvalidByte ==
    /\ emitsOne("utf8")
    /\ diags'[Len(diags')] = Diag("utf8", line, col, ptr)
    /\ lexerFailed'
    /\ ptr' = ptr + 1 /\ col' = col /\ line' = line
    /\ pc' = pc
    /\ UNCHANGED <<tok, tokSet, startPtr, startCol, quote, afterLineTerminator>>

\* The bytes reported as invalid during the call that has returned a string
\* lie between its quotes.
invalidBytesInsideText ==
    \A i \in 1..Len(diagsOfCall) :
        diagsOfCall[i].kind = "utf8" =>
            /\ diagsOfCall[i].at >= tok.text[1]
            /\ diagsOfCall[i].at < tok.text[1] + tok.text[2]

\* C31: a byte that starts an invalid UTF-8 sequence inside a string
\* literal or a comment causes exactly one 'invalid UTF-8 byte sequence'
\* diagnostic, sets failed, advances the scan pointer by exactly 1 with col
\* unchanged, and the same literal or comment goes on being scanned to its
\* normal end.
InvalidUTF8ByteSkipped ==
    /\ [][atInvalidUTF8 => skipsInvalidByte]_vars
    /\ [](ReturnedString => invalidBytesInsideText)

\* A string literal closed inside the buffer is returned whose text holds a
\* byte reported as invalid, followed by at least one more byte.
StringOverInvalidByteReturned ==
    /\ ReturnedString /\ lexerFailed
    /\ tok.text[1] + tok.text[2] < endPtr
    /\ \E i \in 1..Len(diagsOfCall) :
          /\ diagsOfCall[i].kind = "utf8"
          /\ diagsOfCall[i].at + 1 < tok.text[1] + tok.text[2]

\* The buffer holds neither quote byte.
hasNoQuote(b) == \A i \in 1..Len(b) : ~isQuote(b[i])

\* C32: for buffers that contain no quote byte, no lexToken call reads a
\* byte at an index greater than the buffer end pointer: every one-, two-
\* or three-byte lookahead stops at the sentinel at bufferEnd.
NoReadBehindSentinel ==
    hasNoQuote(buf) =>
        /\ ptr <= endPtr
        /\ tail = <<>>
        /\ pc # "fault"
        /\ Running => ReadsTo <= endPtr

\* The switch looks three bytes ahead of a '>' and the third is the
\* sentinel.
ThreeByteLookaheadAtSentinel ==
    /\ hasNoQuote(buf) /\ pc = "beginLexer"
    /\ M(here) = ch.gt
    /\ ReadsTo = here + 3 /\ ReadsTo = endPtr

\* The kinds whose tok.set call is given the lexeme.
TextKinds ==
    {"StringLiteral", "DecimalLiteral", "DecimalBigIntLiteral", "FloatLiteral",
     "HexLiteral", "HexBigIntLiteral", "OctalLiteral", "OctalBigIntLiteral",
     "BinaryLiteral", "BinaryBigIntLiteral"}

\* The step is the return of a call that has set a token of a kind in ks.
returnsKindIn(ks) == pc' = "returned" /\ tokSet' /\ tok'.kind \in ks

\* C33: a lexToken call that returns a punctuator, operator, FileEnd,
\* ZeroLiteral or ZeroBigIntLiteral token leaves the token slot's text
\* field unchanged, so text then still holds the lexeme of the last literal
\* token written to that slot: text changes on no step but the return of a
\* token of a kind that carries its lexeme.
TextKeptByTokensWithoutLexeme ==
    [][/\ (pc # "returned" /\ pc' = "returned" /\ tokSet' /\ tok'.kind \notin TextKinds)
            => tok'.text = tok.text
       /\ tok'.text # tok.text => returnsKindIn(TextKinds)]_vars

\* A token without lexeme, not FileEnd, is returned while text holds the
\* lexeme, not empty, of a literal returned before it.
TokenWithOlderTextReturned ==
    /\ Returned /\ tok.kind \notin TextKinds /\ tok.kind # "FileEnd"
    /\ tok.text[2] > 0
    /\ tok.text[1] + tok.text[2] <= tokStart

\* The scan stands, inside a string literal, at a line terminator: '\n',
\* '\r', or the first byte of U+2028 or U+2029.
terminatorSizeInString ==
    IF ~(pc = "string" /\ Mapped) \/ M(ptr) = quote THEN 0
    ELSE IF M(ptr) = ch.lf \/ M(ptr) = ch.cr THEN 1
    ELSE IF ~isAscii(M(ptr)) /\ decodeUTF8(ptr).ok /\ isUnicodeLT(decodeUTF8(ptr).cp)
    THEN decodeUTF8(ptr).size
    ELSE 0

\* The step consumes n bytes as one ordinary character of the string.
consumedAsCharacter(n) ==
    /\ ptr' = ptr + n /\ col' = CapCol(col + 1)
    /\ pc' = "string"
    /\ UNCHANGED <<tok, tokSet, startPtr, startCol, quote, lexerFailed, diags>>

\* C34: scanning a string literal never changes line: \n, \r and Unicode
\* line terminators between the quotes are consumed as ordinary characters
\* (col + 1 each) and do not end the literal, so tokens after such a string
\* on a later physical line report the line on which the string began.
StringScanKeepsLine ==
    /\ [][/\ pc = "string" => line' = line
          /\ terminatorSizeInString > 0
                => consumedAsCharacter(terminatorSizeInString)]_vars
    /\ [](ReturnedString => tok.line = line)

\* A semicolon behind a string that holds a line feed is returned with the
\* line on which the string began.
TokenBehindStringOverLinesReturned ==
    /\ Returned /\ tok.kind = "Semicolon" /\ tok.line = 1
    /\ \E i \in 1..(tokStart - 1) : buf[i] = ch.lf

\* A string whose text is one Unicode line terminator is returned on the
\* line on which it began.
StringOverUnicodeTerminatorReturned ==
    /\ ReturnedString /\ tok.line = 1 /\ line = 1
    /\ tok.text[2] = 3 /\ tok.text[1] + 3 < endPtr
    /\ isUnicodeLT(codePoint(tok.text[1], 3))

\* The scan of a multi-line comment stands at '*' '/'.
atCommentClose ==
    pc = "multiLineComment" /\ Mapped /\ M(ptr) = ch.star /\ M(ptr + 1) = ch.slash

\* The scan of a multi-line comment stands at a '*' that no '/' follows.
atLoneStar ==
    pc = "multiLineComment" /\ Mapped /\ M(ptr) = ch.star /\ M(ptr + 1) # ch.slash

\* The source is /*/ and nothing else.
isSlashStarSlash == buf = <<ch.slash, ch.star, ch.slash>>

\* C35: a multi-line comment is closed only by a '*' followed by '/' where
\* the '*' lies after the two opening bytes: the scan of the comment starts
\* behind both opening bytes, it leaves the comment for the next token only
\* at '*' '/', consuming both, a '*' not followed by '/' consumes only that
\* one byte, and the input /*/ does not close the comment.
CommentClosedOnlyByStarSlash ==
    /\ [][/\ (pc = "beginLexer" /\ pc' = "multiLineComment")
                => (M(here) = ch.slash /\ M(here + 1) = ch.star /\ ptr' = here + 2)
          /\ (pc = "multiLineComment" /\ pc' = "beginLexer")
                => (atCommentClose /\ ptr' = ptr + 2 /\ col' = CapCol(col + 2))
          /\ atCommentClose => pc' = "beginLexer"
          /\ atLoneStar
                => (ptr' = ptr + 1 /\ col' = CapCol(col + 1)
                    /\ pc' = "multiLineComment")]_vars
    /\ [](isSlashStarSlash =>
            /\ pc # "multiLineComment" => ptr \in {1, endPtr}
            /\ Returned => (tok.kind = "FileEnd" /\ ptr = endPtr))

\* The call over /*/ has returned FileEnd from inside the comment, with the
\* diagnostic of a comment the file ends in.
SlashStarSlashLeftOpen ==
    /\ isSlashStarSlash /\ ReturnedFileEnd /\ tokStart = endPtr
    /\ Len(diags) = 1 /\ diags[1].kind = "eofInComment"

\* The first position at or behind p that holds no octal digit.
RECURSIVE octalDigitsEnd(_)
octalDigitsEnd(p) == IF M(p) \in 48..55 THEN octalDigitsEnd(p + 1) ELSE p

\* The step returns an OctalLiteral at column c whose text starts at
\* position sp; when the octal digits from sp end at e before a byte that
\* is no numeric separator, the text is those digits.
returnsLegacyOctal(c, sp, e) ==
    /\ pc' = "returned" /\ tokSet'
    /\ tok'.kind = "OctalLiteral"
    /\ tok'.line = line /\ tok'.col = c
    /\ tok'.text[1] = sp
    /\ M(e) # ch.us => tok'.text = <<sp, e - sp>>

\* C36: the text of a legacy octal OctalLiteral starts at the byte after
\* the leading 0: for 0 followed by octal digits d1..dk the text is exactly
\* d1..dk, while the token's col is the column of the leading 0.
LegacyOctalTextBehindLeadingZero ==
    [][(pc = "beginLexer" /\ Mapped /\ isLegacyOctal(here))
          => returnsLegacyOctal(hereCol, here + 1, octalDigitsEnd(here + 1))]_vars

\* A legacy octal literal that is not the first token is returned: 07 at
\* the third byte and column, with the text 7.
LegacyOctalBehindTokenReturned ==
    /\ Returned /\ tok.kind = "OctalLiteral" /\ isLegacyOctal(tokStart)
    /\ tokStart = 3 /\ tok.col = 3
    /\ tok.text = <<4, 1>> /\ M(4) = ch.d7

====
